---------------------------- MODULE Spec2Model ----------------------------
(***************************************************************************)
(* A model of fesh_comp (src/fesh_comp/src/main.rs): the reversible        *)
(* binary-transform pipeline, the typed-stream router, the container and   *)
(* its decoder.                                                            *)
(*                                                                         *)
(* Integers of the program are kept at their width: a u32 is a tuple of 4  *)
(* bytes and a u64 / usize a tuple of 8 bytes, least significant byte      *)
(* first, with byte-wise carry arithmetic.  Offsets and lengths inside an  *)
(* image are small naturals.                                               *)
(*                                                                         *)
(* External collaborators are modelled through their interface:            *)
(*  - the object parser: the value object::File::parse returns for an      *)
(*    image is the record obj that comes with the input (sections,         *)
(*    segments, architecture, endianness, word size); section ranges are   *)
(*    taken not to cover the file's own metadata, so every image derived   *)
(*    from the input parses to the same record;                            *)
(*  - the instruction decoder: a fragment of the x86-64 encoding;          *)
(*  - the LZMA2 coder: a small self-describing coder with the same         *)
(*    interface (empty in, empty out; decode inverts encode; malformed     *)
(*    input is an error).                                                  *)
(***************************************************************************)
EXTENDS Integers, Sequences, FiniteSets, TLC

\* ------------------------------------------------------------------------
\* Category indices and the container's fixed sizes
\* ------------------------------------------------------------------------
CAT_OTHER == 0
CAT_CODE == 1
CAT_STR == 2
CAT_S2 == 3
CAT_S4 == 4
CAT_S8 == 5
CAT_RELR8 == 6
CAT_S16 == 7
CAT_REL16 == 8
CAT_DYNAMIC16 == 9
CAT_S24 == 10
CAT_RELA24 == 11
CAT_SYM24 == 12
CAT_EH == 13
CAT_JT4 == 14
CAT_COUNT == 15

Cats == 0 .. (CAT_COUNT - 1)

MAGIC == <<70, 69, 83, 67>>

Byte == 0 .. 255

\* ------------------------------------------------------------------------
\* Fixed-width integers as little-endian byte tuples
\* ------------------------------------------------------------------------
Zeros(k) == [i \in 1..k |-> 0]

Ones(k) == [i \in 1..k |-> 255]

Pow256(i) == IF i = 0 THEN 1 ELSE IF i = 1 THEN 256 ELSE IF i = 2 THEN 65536 ELSE 16777216

\* n as a k-byte little-endian word (n < 2^31)
NatToW(n, k) == [i \in 1..k |-> IF i > 4 THEN 0 ELSE (n \div Pow256(i - 1)) % 256]

\* a word whose value is below 2^31
FitsNat(w) == /\ \A i \in 1..Len(w) : i > 4 => w[i] = 0
              /\ (Len(w) >= 4 => w[4] < 128)

WToNat(w) == LET b(i) == IF i <= Len(w) THEN w[i] ELSE 0
             IN  b(1) + 256 * b(2) + 65536 * b(3) + 16777216 * b(4)

\* wrapping_add at the width of a
AddW(a, b) == LET n == Len(a)
                  c[i \in 0..n] == IF i = 0 THEN 0 ELSE (a[i] + b[i] + c[i - 1]) \div 256
              IN  [i \in 1..n |-> (a[i] + b[i] + c[i - 1]) % 256]

\* the carry out of a + b: the sum does not fit the width
AddOverflows(a, b) == LET n == Len(a)
                          c[i \in 0..n] == IF i = 0 THEN 0 ELSE (a[i] + b[i] + c[i - 1]) \div 256
                      IN  c[n] = 1

NegW(a) == AddW([i \in 1..Len(a) |-> 255 - a[i]], NatToW(1, Len(a)))

\* wrapping_sub at the width of a
SubW(a, b) == AddW(a, NegW(b))

\* a < b, unsigned
LtW(a, b) == \E i \in 1..Len(a) : /\ a[i] < b[i]
                                  /\ \A j \in (i + 1)..Len(a) : a[j] = b[j]

GeW(a, b) == ~LtW(a, b)

\* `as u32` of a u64
Trunc32(w) == SubSeq(w, 1, 4)

\* `as u64` of a u32
Zext64(w) == w \o Zeros(4)

\* `as i64 as u64` of an i32
Sext64(w) == w \o (IF w[4] >= 128 THEN Ones(4) ELSE Zeros(4))

\* swap_bytes / to_be_bytes / from_be_bytes
Rev(w) == [i \in 1..Len(w) |-> w[Len(w) + 1 - i]]

\* the bytes s[p+1 .. p+k] of a 0-based slice s[p..p+k]
Slice(s, p, k) == SubSeq(s, p + 1, p + k)

\* s with the k bytes at 0-based offset p replaced by w
Patch(s, p, w) == [i \in 1..Len(s) |-> IF i > p /\ i <= p + Len(w) THEN w[i - p] ELSE s[i]]

RECURSIVE SumSeq(_)
SumSeq(s) == IF s = <<>> THEN 0 ELSE Head(s) + SumSeq(Tail(s))

\* ------------------------------------------------------------------------
\* 4.1 Varint codec
\* ------------------------------------------------------------------------
\* val >> 7 of a u64
Shr7(w) == [i \in 1..8 |-> (w[i] \div 128) + (IF i < 8 THEN (w[i + 1] % 128) * 2 ELSE 0)]

RECURSIVE write_varint(_)
write_varint(val) ==
    LET byte == val[1] % 128
        rest == Shr7(val)
    IN  IF rest # Zeros(8) THEN <<byte + 128>> \o write_varint(rest)
        ELSE <<byte>>

\* (payload << shift) of a u64: the bits that leave the word are dropped
ShlPayload(payload, shift) ==
    LET q == shift \div 8
        r == shift % 8
        v == payload * (2 ^ r)
    IN  [i \in 1..8 |-> IF i = q + 1 THEN v % 256
                        ELSE IF i = q + 2 THEN v \div 256
                        ELSE 0]

\* val | x for words with no common bit
OrDisjoint(a, b) == [i \in 1..8 |-> a[i] + b[i]]

\* read_varint(buf, &mut pos): [ok, val, pos]
RECURSIVE read_varint_loop(_, _, _, _)
read_varint_loop(buf, pos, val, shift) ==
    IF pos >= Len(buf) THEN [ok |-> FALSE, val |-> Zeros(8), pos |-> pos, err |-> "varint eof"]
    ELSE LET byte == buf[pos + 1]
             v2 == OrDisjoint(val, ShlPayload(byte % 128, shift))
         IN  IF byte < 128 THEN [ok |-> TRUE, val |-> v2, pos |-> pos + 1, err |-> ""]
             ELSE IF shift + 7 >= 64
                  THEN [ok |-> FALSE, val |-> Zeros(8), pos |-> pos + 1, err |-> "varint overflow"]
                  ELSE read_varint_loop(buf, pos + 1, v2, shift + 7)

read_varint(buf, pos) == read_varint_loop(buf, pos, Zeros(8), 0)

\* ------------------------------------------------------------------------
\* 4.2 Byte transpose
\* ------------------------------------------------------------------------
\* a transpose that forgets the bytes after the last whole record
shuffle_bytes_whole(data, stride) ==
    IF data = <<>> \/ stride <= 1 THEN data
    ELSE LET count == Len(data) \div stride
         IN  [k \in 1..(count * stride) |->
                 LET j == (k - 1) \div count
                     i == (k - 1) % count
                 IN  data[i * stride + j + 1]]

shuffle_bytes(data, stride) ==
    IF data = <<>> \/ stride <= 1 THEN data
    ELSE LET count == Len(data) \div stride
             end == count * stride
         IN  [k \in 1..Len(data) |->
                 IF k > end THEN data[k]
                 ELSE LET j == (k - 1) \div count
                          i == (k - 1) % count
                      IN  data[i * stride + j + 1]]

unshuffle_bytes(data, stride) ==
    IF data = <<>> \/ stride <= 1 THEN data
    ELSE LET count == Len(data) \div stride
             end == count * stride
         IN  [k \in 1..Len(data) |->
                 IF k > end THEN data[k]
                 ELSE LET i == (k - 1) \div stride
                          j == (k - 1) % stride
                      IN  data[j * count + i + 1]]

\* ------------------------------------------------------------------------
\* 4.3 Endian helper
\* ------------------------------------------------------------------------
\* chunks_exact_mut(rec): within every whole record, the fields (off, width)
\* of `fields` are byte-reversed; a trailing partial record is left alone
SwapFields(data, rec, fields) ==
    LET whole == (Len(data) \div rec) * rec
    IN  [k \in 1..Len(data) |->
            IF k > whole THEN data[k]
            ELSE LET base == ((k - 1) \div rec) * rec
                     o == (k - 1) % rec
                 IN  IF \E f \in fields : o >= f[1] /\ o < f[1] + f[2]
                     THEN LET f == CHOOSE g \in fields : o >= g[1] /\ o < g[1] + g[2]
                          IN  data[base + f[1] + (f[2] - 1 - (o - f[1])) + 1]
                     ELSE data[k]]

bswap_cat(data, cat) ==
    IF cat = CAT_S4 \/ cat = CAT_JT4 THEN SwapFields(data, 4, {<<0, 4>>})
    ELSE IF cat = CAT_S8 \/ cat = CAT_RELR8 THEN SwapFields(data, 8, {<<0, 8>>})
    ELSE IF cat = CAT_S16 \/ cat = CAT_REL16 \/ cat = CAT_DYNAMIC16
         THEN SwapFields(data, 16, {<<0, 8>>, <<8, 8>>})
    ELSE IF cat = CAT_S24 \/ cat = CAT_RELA24
         THEN SwapFields(data, 24, {<<0, 8>>, <<8, 8>>, <<16, 8>>})
    ELSE IF cat = CAT_SYM24
         THEN SwapFields(data, 24, {<<0, 4>>, <<8, 8>>, <<16, 8>>})
    ELSE data

\* the (category, stride) table of compress_with_mode and decompress
Stride(cat) ==
    IF cat = CAT_S2 THEN 2
    ELSE IF cat = CAT_S4 \/ cat = CAT_JT4 THEN 4
    ELSE IF cat = CAT_S8 \/ cat = CAT_RELR8 THEN 8
    ELSE IF cat = CAT_S16 \/ cat = CAT_REL16 \/ cat = CAT_DYNAMIC16 THEN 16
    ELSE IF cat = CAT_S24 \/ cat = CAT_RELA24 \/ cat = CAT_SYM24 THEN 24
    ELSE 1

NumericCats == {c \in Cats : Stride(c) > 1}

\* ------------------------------------------------------------------------
\* The object parser's view of an image
\* ------------------------------------------------------------------------
\* A section name is a tuple of characters.
StartsWith(name, p) == Len(name) >= Len(p) /\ SubSeq(name, 1, Len(p)) = p

Contains(name, p) == \E k \in 0..(Len(name) - Len(p)) : SubSeq(name, k + 1, k + Len(p)) = p

\* A section: name, kind ("Text" or "Other"), addr (u64), range (file_range()
\* is Some), fo and fsize (the file range), size (size()).
\* An object: parse (object::File::parse is Ok), arch, le, is64, segs (the
\* segments' addresses) and secs (the sections in enumeration order).

\* sec.data(): Ok(bytes) when the range lies in the image
DataOk(sec, img) == sec.range /\ sec.fo + sec.fsize <= Len(img)

SecData(sec, img) == Slice(img, sec.fo, sec.fsize)

\* file offsets a section's file range covers
SecRange(sec) == IF sec.range THEN sec.fo .. (sec.fo + sec.fsize - 1) ELSE {}

\* image_base: the least segment address, 0 when there is none
RECURSIVE MinAddr(_, _)
MinAddr(segs, cur) ==
    IF segs = <<>> THEN cur
    ELSE MinAddr(Tail(segs), IF LtW(Head(segs), cur) THEN Head(segs) ELSE cur)

ImageBase(o) == LET m == MinAddr(o.segs, Ones(8))
                IN  IF m = Ones(8) THEN Zeros(8) ELSE m

\* the guard of process_binary and process_elf_tables
IsX64LE(o) == o.arch = "x86_64" /\ o.le /\ o.is64

\* ------------------------------------------------------------------------
\* 4.4 Instruction patcher
\* ------------------------------------------------------------------------
\* The decoder's view of one instruction at data[off..]: its length and the
\* offset of its patched 32-bit field (-1: none).  The encodings modelled:
\* E8/E9 rel32 (near call, near jmp), 0F 8x rel32 (near jcc), 8B 05 disp32
\* and 8D 05 disp32 (RIP-relative mov / lea); any other byte is taken as a
\* one-byte instruction without a field.
InsnAt(data, off) ==
    LET b0 == data[off + 1]
        b1 == IF off + 1 < Len(data) THEN data[off + 2] ELSE 0
        has1 == off + 1 < Len(data)
    IN  IF b0 = 232 \/ b0 = 233 THEN [len |-> 5, field |-> 1]
        ELSE IF b0 = 15 /\ has1 /\ b1 >= 128 /\ b1 <= 143 THEN [len |-> 6, field |-> 2]
        ELSE IF (b0 = 139 \/ b0 = 141) /\ has1 /\ b1 = 5 THEN [len |-> 6, field |-> 2]
        ELSE [len |-> 1, field |-> -1]

\* the decode loop over one section: the patches (fo, next_ip) in order
RECURSIVE DecodeSection(_, _, _, _)
DecodeSection(data, off, va, file_off) ==
    IF off >= Len(data) THEN <<>>
    ELSE LET ins == InsnAt(data, off)
         IN  IF off + ins.len > Len(data) THEN <<>>
             ELSE LET next_ip == Trunc32(AddW(va, NatToW(off + ins.len, 8)))
                      here == IF ins.field >= 0
                              THEN <<[fo |-> file_off + off + ins.field, next_ip |-> next_ip]>>
                              ELSE <<>>
                  IN  here \o DecodeSection(data, off + ins.len, va, file_off)

RECURSIVE TextPatches(_, _)
TextPatches(secs, img) ==
    IF secs = <<>> THEN <<>>
    ELSE LET sec == Head(secs)
             mine == IF sec.kind = "Text" /\ DataOk(sec, img)
                     THEN DecodeSection(SecData(sec, img), 0, sec.addr, sec.fo)
                     ELSE <<>>
         IN  mine \o TextPatches(Tail(secs), img)

\* a patch whose decompress side reads the field little-endian in both modes
ApplyInsnPatchLeRead(skel, p, base32, is_compress, use_be) ==
    IF is_compress
    THEN LET norm == SubW(AddW(Slice(skel, p.fo, 4), p.next_ip), base32)
         IN  Patch(skel, p.fo, IF use_be THEN Rev(norm) ELSE norm)
    ELSE Patch(skel, p.fo, SubW(AddW(Slice(skel, p.fo, 4), base32), p.next_ip))

\* one patch of process_binary applied to skel
ApplyInsnPatch(skel, p, base32, is_compress, use_be) ==
    IF is_compress
    THEN LET cur == Slice(skel, p.fo, 4)
             dest == AddW(cur, p.next_ip)
             norm == SubW(dest, base32)
         IN  Patch(skel, p.fo, IF use_be THEN Rev(norm) ELSE norm)
    ELSE LET norm == IF use_be THEN Rev(Slice(skel, p.fo, 4)) ELSE Slice(skel, p.fo, 4)
             dest == AddW(norm, base32)
             orig == SubW(dest, p.next_ip)
         IN  Patch(skel, p.fo, orig)

RECURSIVE ApplyInsnPatches(_, _, _, _, _)
ApplyInsnPatches(skel, ps, base32, is_compress, use_be) ==
    IF ps = <<>> THEN skel
    ELSE ApplyInsnPatches(ApplyInsnPatch(skel, Head(ps), base32, is_compress, use_be),
                          Tail(ps), base32, is_compress, use_be)

process_binary(o, file_data, is_compress, use_be) ==
    IF ~o.parse THEN file_data
    ELSE IF ~IsX64LE(o) THEN file_data
    ELSE ApplyInsnPatches(file_data, TextPatches(o.secs, file_data),
                          Trunc32(ImageBase(o)), is_compress, use_be)

\* ------------------------------------------------------------------------
\* 4.5 EH-frame-hdr patcher
\* ------------------------------------------------------------------------
\* eh_pe_fixed_size(enc, ptr_size): -1 stands for None
eh_pe_fixed_size(enc, ptr_size) ==
    IF enc = 255 THEN 0
    ELSE LET f == enc % 16
         IN  IF f = 0 THEN ptr_size
             ELSE IF f = 2 \/ f = 10 THEN 2
             ELSE IF f = 3 \/ f = 11 THEN 4
             ELSE IF f = 4 \/ f = 12 THEN 8
             ELSE -1

\* the patches (fo, field_va) of one .eh_frame_hdr section
EhSectionPatches(sec, img) ==
    IF ~sec.range THEN <<>>
    ELSE IF ~DataOk(sec, img) THEN <<>>
    ELSE LET data == SecData(sec, img)
         IN  IF Len(data) < 8 THEN <<>>
             ELSE LET version == data[1]
                      eh_frame_ptr_enc == data[2]
                      fde_count_enc == data[3]
                      table_enc == data[4]
                      skip_sz == eh_pe_fixed_size(eh_frame_ptr_enc, 8)
                      fde_count_sz == eh_pe_fixed_size(fde_count_enc, 8)
                      pos == 4 + skip_sz
                  IN  IF version # 1 THEN <<>>
                      ELSE IF table_enc # 27 /\ table_enc # 59 THEN <<>>
                      ELSE IF skip_sz = -1 \/ fde_count_sz = -1 THEN <<>>
                      ELSE IF fde_count_sz # 4 THEN <<>>
                      ELSE IF pos + 4 > Len(data) THEN <<>>
                      ELSE LET cnt == Slice(data, pos, 4)
                               pos2 == pos + 4
                           IN  \* fde_count * 8 beyond the section: no patch
                               IF ~FitsNat(cnt) \/ WToNat(cnt) > Len(data) THEN <<>>
                               ELSE IF pos2 + WToNat(cnt) * 8 > Len(data) THEN <<>>
                               ELSE [i \in 1..(WToNat(cnt) * 2) |->
                                       LET field_va == AddW(sec.addr, NatToW(pos2 + (i - 1) * 4, 8))
                                       IN  [fo |-> sec.fo + pos2 + (i - 1) * 4,
                                            field_va |-> IF table_enc = 27 THEN field_va
                                                         ELSE sec.addr]]

NAME_EH_FRAME_HDR == <<".", "e", "h", "_", "f", "r", "a", "m", "e", "_", "h", "d", "r">>

RECURSIVE EhPatches(_, _)
EhPatches(secs, img) ==
    IF secs = <<>> THEN <<>>
    ELSE (IF Head(secs).name = NAME_EH_FRAME_HDR THEN EhSectionPatches(Head(secs), img) ELSE <<>>)
         \o EhPatches(Tail(secs), img)

\* the compress side's skip: abs_va > u32::MAX after the conditional rebase
EhAbsVa(out, p, image_base) ==
    LET cur_rel == Slice(out, p.fo, 4)
        abs_va == AddW(p.field_va, Sext64(cur_rel))
    IN  IF GeW(abs_va, image_base) THEN SubW(abs_va, image_base) ELSE abs_va

EhCompressSkips(out, p, image_base) == SubSeq(EhAbsVa(out, p, image_base), 5, 8) # Zeros(4)

\* one patch of process_eh_frame_hdr applied to out
ApplyEhPatch(out, p, image_base, is_compress, use_be) ==
    IF is_compress
    THEN LET abs_va == EhAbsVa(out, p, image_base)
         IN  IF EhCompressSkips(out, p, image_base) THEN out
             ELSE Patch(out, p.fo, IF use_be THEN Rev(Trunc32(abs_va)) ELSE Trunc32(abs_va))
    ELSE LET abs_va32 == IF use_be THEN Rev(Slice(out, p.fo, 4)) ELSE Slice(out, p.fo, 4)
             orig_rel == Trunc32(SubW(AddW(Zext64(abs_va32), image_base), p.field_va))
         IN  Patch(out, p.fo, orig_rel)

RECURSIVE ApplyEhPatches(_, _, _, _, _)
ApplyEhPatches(out, ps, image_base, is_compress, use_be) ==
    IF ps = <<>> THEN out
    ELSE ApplyEhPatches(ApplyEhPatch(out, Head(ps), image_base, is_compress, use_be),
                        Tail(ps), image_base, is_compress, use_be)

process_eh_frame_hdr(o, file_data, is_compress, use_be) ==
    IF ~o.parse THEN file_data
    ELSE ApplyEhPatches(file_data, EhPatches(o.secs, file_data), ImageBase(o),
                        is_compress, use_be)

\* ------------------------------------------------------------------------
\* 4.6 Jump-table detector
\* ------------------------------------------------------------------------
NAME_TEXT == <<".", "t", "e", "x", "t">>

NAME_RODATA == <<".", "r", "o", "d", "a", "t", "a">>

NAME_DATA_REL_RO == <<".", "d", "a", "t", "a", ".", "r", "e", "l", ".", "r", "o">>

\* the first section named .text: [va, size], size 0 when there is none
RECURSIVE FindText(_)
FindText(secs) ==
    IF secs = <<>> THEN [va |-> Zeros(8), size |-> 0]
    ELSE IF Head(secs).name = NAME_TEXT THEN [va |-> Head(secs).addr, size |-> Head(secs).size]
    ELSE FindText(Tail(secs))

\* a range test that takes text_va + text_size as inside
InTextClosed(target_va, text) ==
    /\ GeW(target_va, text.va)
    /\ ~LtW(AddW(text.va, NatToW(text.size, 8)), target_va)

\* target_va >= text_va && target_va < text_va + text_size
InText(target_va, text) ==
    /\ GeW(target_va, text.va)
    /\ LtW(target_va, AddW(text.va, NatToW(text.size, 8)))

\* the scan of one section in 4-byte steps: the runs of at least 4 entries
RECURSIVE ScanSection(_, _, _, _, _, _)
ScanSection(data, sec, text, i, run_start, run_len) ==
    IF i + 4 > Len(data)
    THEN IF run_len >= 4 THEN <<[fo |-> run_start, count |-> run_len]>> ELSE <<>>
    ELSE LET val == Slice(data, i, 4)
             entry_va == AddW(sec.addr, NatToW(i, 8))
             target_va == AddW(entry_va, Sext64(val))
         IN  IF InText(target_va, text)
             THEN ScanSection(data, sec, text, i + 4,
                              IF run_len = 0 THEN sec.fo + i ELSE run_start, run_len + 1)
             ELSE (IF run_len >= 4 THEN <<[fo |-> run_start, count |-> run_len]>> ELSE <<>>)
                  \o ScanSection(data, sec, text, i + 4, 0, 0)

RECURSIVE DiscoverTables(_, _, _)
DiscoverTables(secs, img, text) ==
    IF secs = <<>> THEN <<>>
    ELSE LET sec == Head(secs)
             mine == IF (sec.name = NAME_RODATA \/ sec.name = NAME_DATA_REL_RO) /\ DataOk(sec, img)
                     THEN ScanSection(SecData(sec, img), sec, text, 0, 0, 0)
                     ELSE <<>>
         IN  mine \o DiscoverTables(Tail(secs), img, text)

\* the side table written on compress; `under` is set when t.fo - prev_fo
\* goes below zero (a panic with overflow checks, a wrapped delta without)
RECURSIVE JtMetaBody(_, _)
JtMetaBody(tables, prev_fo) ==
    IF tables = <<>> THEN [bytes |-> <<>>, under |-> FALSE]
    ELSE LET t == Head(tables)
             rest == JtMetaBody(Tail(tables), t.fo)
         IN  [bytes |-> write_varint(SubW(NatToW(t.fo, 8), NatToW(prev_fo, 8)))
                        \o write_varint(NatToW(t.count, 8)) \o rest.bytes,
              under |-> (t.fo < prev_fo) \/ rest.under]

JtMetaOut(tables) ==
    LET body == JtMetaBody(tables, 0)
    IN  [bytes |-> write_varint(NatToW(Len(tables), 8)) \o body.bytes, under |-> body.under]

\* the side table read on decompress: [st, tables]; fo and count are kept as
\* u64 words; prev_fo + delta_fo beyond the word panics with overflow checks
\* and wraps without
RECURSIVE JtMetaRead(_, _, _, _, _, _)
JtMetaRead(meta, pos, k, num, prev_fo, checks) ==
    IF ~LtW(NatToW(k, 8), num) THEN [st |-> "ok", tables |-> <<>>]
    ELSE LET d == read_varint(meta, pos)
         IN  IF ~d.ok THEN [st |-> "err", tables |-> <<>>]
             ELSE LET c == read_varint(meta, d.pos)
                  IN  IF ~c.ok THEN [st |-> "err", tables |-> <<>>]
                      ELSE IF checks /\ AddOverflows(prev_fo, d.val)
                      THEN [st |-> "panic", tables |-> <<>>]
                      ELSE LET fo == AddW(prev_fo, d.val)
                               rest == JtMetaRead(meta, c.pos, k + 1, num, fo, checks)
                           IN  [st |-> rest.st,
                                tables |-> <<[fo |-> fo, count |-> c.val]>> \o rest.tables]

\* file_to_va(offset).unwrap_or(0)
RECURSIVE file_to_va(_, _)
file_to_va(secs, offset) ==
    IF secs = <<>> THEN Zeros(8)
    ELSE LET sec == Head(secs)
         IN  IF sec.range /\ offset >= sec.fo /\ offset < sec.fo + sec.fsize
             THEN AddW(sec.addr, NatToW(offset - sec.fo, 8))
             ELSE file_to_va(Tail(secs), offset)

\* one entry of a jump table rewritten
ApplyJtEntry(out, p, entry_va, image_base, is_compress, use_be) ==
    IF is_compress
    THEN LET val == Slice(out, p, 4)
             target_va == Trunc32(SubW(AddW(entry_va, Sext64(val)), image_base))
         IN  Patch(out, p, IF use_be THEN Rev(target_va) ELSE target_va)
    ELSE LET target_va == IF use_be THEN Rev(Slice(out, p, 4)) ELSE Slice(out, p, 4)
             orig_rel == Trunc32(SubW(AddW(Zext64(target_va), image_base), entry_va))
         IN  Patch(out, p, orig_rel)

\* the rewrite loop over tables with natural fo and count
RECURSIVE ApplyJtTables(_, _, _, _, _, _, _)
ApplyJtTables(out, tables, i, secs, image_base, is_compress, use_be) ==
    IF tables = <<>> THEN out
    ELSE IF i >= Head(tables).count
         THEN ApplyJtTables(out, Tail(tables), 0, secs, image_base, is_compress, use_be)
         ELSE LET p == Head(tables).fo + i * 4
              IN  ApplyJtTables(ApplyJtEntry(out, p, file_to_va(secs, p), image_base,
                                             is_compress, use_be),
                                tables, i + 1, secs, image_base, is_compress, use_be)

\* a table of the side information whose entries do not lie in the image:
\* out[p..p+4] panics
JtTableOutside(t, len) ==
    /\ t.count # Zeros(8)
    /\ \/ ~FitsNat(t.fo) \/ ~FitsNat(t.count)
       \/ WToNat(t.count) > len
       \/ WToNat(t.fo) + 4 * WToNat(t.count) > len

JtNatTables(ts) == [k \in 1..Len(ts) |-> [fo |-> WToNat(ts[k].fo), count |-> WToNat(ts[k].count)]]

\* process_jump_tables: [st, out, meta, tables]; st is "ok", "err" (an Err
\* returned) or "panic"; checks: the build has overflow checks
process_jump_tables(o, file_data, is_compress, use_be, jt_meta_in, checks) ==
    LET none == [st |-> "ok", out |-> file_data, meta |-> <<>>, tables |-> <<>>]
        text == FindText(o.secs)
    IN  IF ~o.parse THEN none
        ELSE IF o.arch # "x86_64" THEN none
        ELSE IF text.size = 0 THEN none
        ELSE IF is_compress
        THEN LET tables == DiscoverTables(o.secs, file_data, text)
                 meta == JtMetaOut(tables)
             IN  IF meta.under /\ checks
                 THEN [st |-> "panic", out |-> file_data, meta |-> <<>>, tables |-> <<>>]
                 ELSE [st |-> "ok",
                       out |-> ApplyJtTables(file_data, tables, 0, o.secs, ImageBase(o), TRUE, use_be),
                       meta |-> meta.bytes, tables |-> tables]
        ELSE LET n == read_varint(jt_meta_in, 0)
             IN  IF ~n.ok THEN none
                 ELSE LET rd == JtMetaRead(jt_meta_in, n.pos, 0, n.val, Zeros(8), checks)
                      IN  IF rd.st # "ok"
                          THEN [st |-> rd.st, out |-> file_data, meta |-> <<>>, tables |-> <<>>]
                          ELSE IF \E k \in 1..Len(rd.tables) : JtTableOutside(rd.tables[k], Len(file_data))
                          THEN [st |-> "panic", out |-> file_data, meta |-> <<>>, tables |-> <<>>]
                          ELSE [st |-> "ok",
                                out |-> ApplyJtTables(file_data, JtNatTables(rd.tables), 0, o.secs,
                                                      ImageBase(o), FALSE, use_be),
                                meta |-> <<>>, tables |-> JtNatTables(rd.tables)]

\* ------------------------------------------------------------------------
\* 4.7 ELF typed-table transformer
\* ------------------------------------------------------------------------
\* field (off, w) of record i of a table of rec-byte records
FieldAt(buf, rec, off, w, i) == Slice(buf, i * rec + off, w)

\* buf with field (off, w) of every record i replaced by vals[i]
WithField(buf, rec, off, w, vals) ==
    [k \in 1..Len(buf) |->
        LET i == (k - 1) \div rec
            o == (k - 1) % rec
        IN  IF o >= off /\ o < off + w THEN vals[i][o - off + 1] ELSE buf[k]]

\* a delta coder that takes every difference from record 0
DeltaFieldFromFirst(buf, rec, off, w, is_compress) ==
    LET n == Len(buf) \div rec
        old == [i \in 0..(n - 1) |-> FieldAt(buf, rec, off, w, i)]
        new == [i \in 0..(n - 1) |->
                   IF i = 0 THEN old[0]
                   ELSE IF is_compress THEN SubW(old[i], old[0]) ELSE AddW(old[0], old[i])]
    IN  WithField(buf, rec, off, w, new)

\* a field delta-coded against the previous record, record 0 against zero
DeltaField(buf, rec, off, w, is_compress) ==
    LET n == Len(buf) \div rec
        old == [i \in 0..(n - 1) |-> FieldAt(buf, rec, off, w, i)]
        acc[i \in 0..(n - 1)] == IF i = 0 THEN old[0] ELSE AddW(acc[i - 1], old[i])
        new == [i \in 0..(n - 1) |->
                   IF is_compress
                   THEN IF i = 0 THEN old[0] ELSE SubW(old[i], old[i - 1])
                   ELSE acc[i]]
    IN  WithField(buf, rec, off, w, new)

\* ((x << 1) ^ (x >> 63)) as u64
ZigZag(x) ==
    LET shl == [i \in 1..8 |-> ((x[i] * 2) % 256) + (IF i > 1 THEN x[i - 1] \div 128 ELSE 0)]
    IN  IF x[8] >= 128 THEN [i \in 1..8 |-> 255 - shl[i]] ELSE shl

\* ((u >> 1) as i64) ^ (-((u & 1) as i64))
UnZigZag(u) ==
    LET shr == [i \in 1..8 |-> (u[i] \div 2) + (IF i < 8 THEN (u[i + 1] % 2) * 128 ELSE 0)]
    IN  IF u[1] % 2 = 1 THEN [i \in 1..8 |-> 255 - shr[i]] ELSE shr

\* a field of every record mapped through ZigZag or its inverse
ZigZagField(buf, rec, off, is_compress) ==
    LET n == Len(buf) \div rec
    IN  WithField(buf, rec, off, 8,
                  [i \in 0..(n - 1) |->
                      IF is_compress THEN ZigZag(FieldAt(buf, rec, off, 8, i))
                      ELSE UnZigZag(FieldAt(buf, rec, off, 8, i))])

transform_rela24(buf, is_compress) ==
    IF Len(buf) % 24 # 0 THEN buf
    ELSE IF is_compress
    THEN ZigZagField(DeltaField(DeltaField(DeltaField(buf, 24, 0, 8, TRUE), 24, 12, 4, TRUE),
                                24, 16, 8, TRUE), 24, 16, TRUE)
    ELSE DeltaField(DeltaField(DeltaField(ZigZagField(buf, 24, 16, FALSE), 24, 16, 8, FALSE),
                               24, 12, 4, FALSE), 24, 0, 8, FALSE)

transform_rel16(buf, is_compress) ==
    IF Len(buf) % 16 # 0 THEN buf
    ELSE DeltaField(DeltaField(buf, 16, 0, 8, is_compress), 16, 12, 4, is_compress)

transform_sym24(buf, is_compress) ==
    IF Len(buf) % 24 # 0 THEN buf
    ELSE DeltaField(DeltaField(DeltaField(buf, 24, 0, 4, is_compress), 24, 8, 8, is_compress),
                    24, 16, 8, is_compress)

\* the RELR loop from record i on: entries with low bit 0 are coded against
\* the previous such entry, the others are left alone
RECURSIVE Relr8From(_, _, _, _)
Relr8From(buf, i, prev_base, is_compress) ==
    IF i * 8 >= Len(buf) THEN buf
    ELSE LET val == Slice(buf, i * 8, 8)
         IN  IF val[1] % 2 # 0 THEN Relr8From(buf, i + 1, prev_base, is_compress)
             ELSE IF is_compress
                  THEN Relr8From(Patch(buf, i * 8, IF i = 0 THEN val ELSE SubW(val, prev_base)),
                                 i + 1, val, TRUE)
                  ELSE LET base == IF i = 0 THEN val ELSE AddW(prev_base, val)
                       IN  Relr8From(Patch(buf, i * 8, base), i + 1, base, FALSE)

transform_relr8(buf, is_compress) ==
    IF Len(buf) % 8 # 0 THEN buf
    ELSE Relr8From(buf, 0, Zeros(8), is_compress)

transform_dynamic16(buf, is_compress) ==
    IF Len(buf) % 16 # 0 THEN buf
    ELSE DeltaField(DeltaField(buf, 16, 0, 8, is_compress), 16, 8, 8, is_compress)

NAME_REL == <<".", "r", "e", "l">>

NAME_RELA == <<".", "r", "e", "l", "a">>

NAME_RELR == <<".", "r", "e", "l", "r">>

NAME_DYNSYM == <<".", "d", "y", "n", "s", "y", "m">>

NAME_SYMTAB == <<".", "s", "y", "m", "t", "a", "b">>

NAME_DYNAMIC == <<".", "d", "y", "n", "a", "m", "i", "c">>

\* the transform process_elf_tables picks for a section by its name
TableTransform(name, slice, is_compress) ==
    IF StartsWith(name, NAME_RELA) THEN transform_rela24(slice, is_compress)
    ELSE IF StartsWith(name, NAME_REL) /\ ~StartsWith(name, NAME_RELR)
         THEN transform_rel16(slice, is_compress)
    ELSE IF name = NAME_DYNSYM \/ name = NAME_SYMTAB THEN transform_sym24(slice, is_compress)
    ELSE IF StartsWith(name, NAME_RELR) THEN transform_relr8(slice, is_compress)
    ELSE IF name = NAME_DYNAMIC THEN transform_dynamic16(slice, is_compress)
    ELSE slice

RECURSIVE ElfTablesFrom(_, _, _)
ElfTablesFrom(out, secs, is_compress) ==
    IF secs = <<>> THEN out
    ELSE LET sec == Head(secs)
         IN  IF ~sec.range \/ sec.fo + sec.fsize > Len(out)
             THEN ElfTablesFrom(out, Tail(secs), is_compress)
             ELSE ElfTablesFrom(Patch(out, sec.fo,
                                      TableTransform(sec.name, Slice(out, sec.fo, sec.fsize),
                                                     is_compress)),
                                Tail(secs), is_compress)

process_elf_tables(o, file_data, is_compress) ==
    IF ~o.parse THEN file_data
    ELSE IF ~IsX64LE(o) THEN file_data
    ELSE ElfTablesFrom(file_data, o.secs, is_compress)

\* ------------------------------------------------------------------------
\* 4.8 Stream router
\* ------------------------------------------------------------------------
NAME_STRTAB == <<".", "s", "t", "r", "t", "a", "b">>

NAME_DYNSTR == <<".", "d", "y", "n", "s", "t", "r">>

SUB_STR == <<"s", "t", "r">>

SUB_EH_FRAME == <<"e", "h", "_", "f", "r", "a", "m", "e">>

SUB_GCC_EXCEPT == <<"g", "c", "c", "_", "e", "x", "c", "e", "p", "t">>

SUB_CST16 == <<"c", "s", "t", "1", "6">>

NAME_GNU_VERSION == <<".", "g", "n", "u", ".", "v", "e", "r", "s", "i", "o", "n">>

SUB_ARRAY == <<"a", "r", "r", "a", "y">>

SUB_CST8 == <<"c", "s", "t", "8">>

SUB_HASH == <<"h", "a", "s", "h">>

SUB_CST4 == <<"c", "s", "t", "4">>

ptr_prefixes == {<<".", "g", "o", "t">>,
                 <<".", "g", "o", "t", ".", "p", "l", "t">>,
                 <<".", "d", "a", "t", "a", ".", "r", "e", "l", ".", "r", "o">>,
                 <<".", "i", "n", "i", "t", "_", "a", "r", "r", "a", "y">>,
                 <<".", "f", "i", "n", "i", "_", "a", "r", "r", "a", "y">>,
                 <<".", "p", "l", "t", ".", "g", "o", "t">>}

\* the category split_streams gives a section (first match wins)
SectionCat(sec) ==
    LET name == sec.name
    IN  IF sec.kind = "Text" THEN CAT_CODE
        ELSE IF name = NAME_STRTAB \/ name = NAME_DYNSTR \/ Contains(name, SUB_STR) THEN CAT_STR
        ELSE IF Contains(name, SUB_EH_FRAME) \/ Contains(name, SUB_GCC_EXCEPT) THEN CAT_EH
        ELSE IF StartsWith(name, NAME_RELR) THEN CAT_RELR8
        ELSE IF StartsWith(name, NAME_RELA) THEN CAT_RELA24
        ELSE IF name = NAME_SYMTAB \/ name = NAME_DYNSYM THEN CAT_SYM24
        ELSE IF StartsWith(name, NAME_REL) THEN CAT_REL16
        ELSE IF name = NAME_DYNAMIC THEN CAT_DYNAMIC16
        ELSE IF Contains(name, SUB_CST16) THEN CAT_S16
        ELSE IF name = NAME_GNU_VERSION THEN CAT_S2
        ELSE IF (\E p \in ptr_prefixes : StartsWith(name, p))
                \/ Contains(name, SUB_ARRAY) \/ Contains(name, SUB_CST8) THEN CAT_S8
        ELSE IF Contains(name, SUB_HASH) \/ Contains(name, SUB_CST4) THEN CAT_S4
        ELSE CAT_OTHER

\* the sections whose range split_streams labels: a file range inside the image
Labelled(sec, len) == sec.range /\ sec.fo + sec.fsize <= len

\* a label vector in which the jump tables are laid first and the sections
\* over them
LabelsSectionsLast(o, file_data, jump_tables) ==
    LET len == Len(file_data)
        covering(k) == {s \in 1..Len(o.secs) : /\ Labelled(o.secs[s], len)
                                               /\ k - 1 >= o.secs[s].fo
                                               /\ k - 1 < o.secs[s].fo + o.secs[s].fsize}
        last(S) == CHOOSE s \in S : \A t \in S : t <= s
        injt(k) == \E t \in 1..Len(jump_tables) :
                       /\ k - 1 >= jump_tables[t].fo
                       /\ k - 1 < jump_tables[t].fo + jump_tables[t].count * 4
    IN  [k \in 1..len |-> IF o.parse /\ covering(k) # {} THEN SectionCat(o.secs[last(covering(k))])
                          ELSE IF injt(k) THEN CAT_JT4 ELSE CAT_OTHER]

\* the label vector: sections in enumeration order (a later section
\* overwrites an earlier one), then the jump tables
Labels(o, file_data, jump_tables) ==
    LET len == Len(file_data)
        covering(k) == {s \in 1..Len(o.secs) : /\ Labelled(o.secs[s], len)
                                               /\ k - 1 >= o.secs[s].fo
                                               /\ k - 1 < o.secs[s].fo + o.secs[s].fsize}
        last(S) == CHOOSE s \in S : \A t \in S : t <= s
        bysec(k) == IF o.parse /\ covering(k) # {} THEN SectionCat(o.secs[last(covering(k))])
                    ELSE CAT_OTHER
        injt(k) == \E t \in 1..Len(jump_tables) :
                       /\ k - 1 >= jump_tables[t].fo
                       /\ k - 1 < jump_tables[t].fo + jump_tables[t].count * 4
    IN  [k \in 1..len |-> IF injt(k) THEN CAT_JT4 ELSE bysec(k)]

\* a fold that does not push the run still open at the end of the labels
RECURSIVE RunsFromNoFlush(_, _, _, _)
RunsFromNoFlush(labels, k, cur_cat, count) ==
    IF k > Len(labels) THEN <<>>
    ELSE IF labels[k] = cur_cat THEN RunsFromNoFlush(labels, k + 1, cur_cat, count + 1)
    ELSE <<[cat |-> cur_cat, count |-> count]>> \o RunsFromNoFlush(labels, k + 1, labels[k], 1)

\* adjacent identical labels folded into (cat, count)
RECURSIVE RunsFrom(_, _, _, _)
RunsFrom(labels, k, cur_cat, count) ==
    IF k > Len(labels) THEN <<[cat |-> cur_cat, count |-> count]>>
    ELSE IF labels[k] = cur_cat THEN RunsFrom(labels, k + 1, cur_cat, count + 1)
    ELSE <<[cat |-> cur_cat, count |-> count]>> \o RunsFrom(labels, k + 1, labels[k], 1)

RunsOf(labels) == IF labels = <<>> THEN <<>> ELSE RunsFrom(labels, 2, labels[1], 1)

\* the control stream: (count << 4) | cat of every run as a varint
RECURSIVE EncodeRuns(_)
EncodeRuns(rs) ==
    IF rs = <<>> THEN <<>>
    ELSE write_varint(NatToW(Head(rs).count * 16 + Head(rs).cat, 8)) \o EncodeRuns(Tail(rs))

\* a routing loop that stops one byte before the end of the image
RECURSIVE StreamFromShort(_, _, _, _)
StreamFromShort(file_data, labels, cat, k) ==
    IF k >= Len(file_data) THEN <<>>
    ELSE (IF labels[k] = cat THEN <<file_data[k]>> ELSE <<>>)
         \o StreamFromShort(file_data, labels, cat, k + 1)

\* the image-order subsequence of the bytes labelled cat
RECURSIVE StreamFrom(_, _, _, _)
StreamFrom(file_data, labels, cat, k) ==
    IF k > Len(file_data) THEN <<>>
    ELSE (IF labels[k] = cat THEN <<file_data[k]>> ELSE <<>>)
         \o StreamFrom(file_data, labels, cat, k + 1)

\* split_streams: [labels, runs, streams]; streams is indexed by category
split_streams(o, file_data, jump_tables) ==
    LET labels == Labels(o, file_data, jump_tables)
    IN  [labels |-> labels,
         runs |-> EncodeRuns(RunsOf(labels)),
         streams |-> [c \in Cats |-> StreamFrom(file_data, labels, c, 1)]]

\* ------------------------------------------------------------------------
\* 4.9 Category coder
\* ------------------------------------------------------------------------
\* bswap_cat then shuffle_bytes for the categories of the stride table
FilterStream(s, cat) == IF cat \in NumericCats THEN shuffle_bytes(bswap_cat(s, cat), Stride(cat)) ELSE s

\* unshuffle_bytes then bswap_cat
UnfilterStream(s, cat) == IF cat \in NumericCats THEN bswap_cat(unshuffle_bytes(s, Stride(cat)), cat) ELSE s

\* The entropy coder.  With literal-context-bits 3 the stand-in emits a 3
\* and the input run-length coded as (count, byte) pairs; with 0 it emits a
\* 0 and the input as it is.
RECURSIVE RleFrom(_, _, _, _)
RleFrom(s, k, cur, count) ==
    IF k > Len(s) THEN <<count, cur>>
    ELSE IF s[k] = cur /\ count < 255 THEN RleFrom(s, k + 1, cur, count + 1)
    ELSE <<count, cur>> \o RleFrom(s, k + 1, s[k], 1)

XzEncode(s, lc) ==
    IF lc = 0 THEN <<0>> \o s
    ELSE <<3>> \o RleFrom(s, 2, s[1], 1)

RECURSIVE UnRle(_)
UnRle(d) ==
    IF d = <<>> THEN [ok |-> TRUE, out |-> <<>>]
    ELSE IF Len(d) < 2 \/ d[1] = 0 THEN [ok |-> FALSE, out |-> <<>>]
    ELSE LET rest == UnRle(SubSeq(d, 3, Len(d)))
         IN  [ok |-> rest.ok, out |-> [i \in 1..d[1] |-> d[2]] \o rest.out]

compress_xz_tuned(data) == IF data = <<>> THEN <<>> ELSE XzEncode(data, 3)

\* decompress_xz: [ok, out]
decompress_xz(data) ==
    IF data = <<>> THEN [ok |-> TRUE, out |-> <<>>]
    ELSE IF data[1] = 0 THEN [ok |-> TRUE, out |-> Tail(data)]
    ELSE IF data[1] = 3 THEN UnRle(Tail(data))
    ELSE [ok |-> FALSE, out |-> <<>>]

\* one job of the parallel map of compress_with_mode
CompressJob(cat, s) ==
    IF s = <<>> THEN <<>>
    ELSE IF cat # CAT_CODE /\ cat # CAT_EH /\ cat # CAT_OTHER
    THEN LET c3 == XzEncode(s, 3)
             c0 == XzEncode(s, 0)
         IN  IF Len(c0) < Len(c3) THEN c0 ELSE c3
    ELSE compress_xz_tuned(s)

\* ------------------------------------------------------------------------
\* 4.11 Container
\* ------------------------------------------------------------------------
\* a block writer that writes nothing at all for an empty block
BlockSkipEmpty(bytes) == IF bytes = <<>> THEN <<>> ELSE write_varint(NatToW(Len(bytes), 8)) \o bytes

Block(bytes) == write_varint(NatToW(Len(bytes), 8)) \o bytes

RECURSIVE StreamBlocks(_, _)
StreamBlocks(cs, cat) ==
    IF cat >= CAT_COUNT THEN <<>>
    ELSE Block(cs[cat]) \o StreamBlocks(cs, cat + 1)

\* the bytes compress_with_mode writes
Container(orig_len, use_be, runs, cs, jt_meta) ==
    MAGIC \o NatToW(orig_len, 8) \o <<IF use_be THEN 1 ELSE 0>>
          \o Block(runs) \o StreamBlocks(cs, 0) \o Block(jt_meta)

\* ------------------------------------------------------------------------
\* decompress: reading the container
\* ------------------------------------------------------------------------
\* a varint-length-prefixed block at pos: [st, bytes, pos].  pos + len is
\* computed in usize: beyond the word it panics with overflow checks and
\* wraps without, and then the slice data[pos..pos + len] panics
ReadBlock(data, pos, checks) ==
    LET r == read_varint(data, pos)
        over == AddOverflows(NatToW(r.pos, 8), r.val)
        end == AddW(NatToW(r.pos, 8), r.val)
    IN  IF ~r.ok THEN [st |-> "err", bytes |-> <<>>, pos |-> pos]
        ELSE IF over /\ checks THEN [st |-> "panic", bytes |-> <<>>, pos |-> pos]
        ELSE IF ~FitsNat(end) \/ WToNat(end) > Len(data) THEN [st |-> "err", bytes |-> <<>>, pos |-> pos]
        ELSE IF WToNat(end) < r.pos THEN [st |-> "panic", bytes |-> <<>>, pos |-> pos]
        ELSE [st |-> "ok", bytes |-> SubSeq(data, r.pos + 1, WToNat(end)), pos |-> WToNat(end)]

\* the CAT_COUNT stream blocks from category cat on: [st, cs, pos]
RECURSIVE ReadStreams(_, _, _, _)
ReadStreams(data, pos, cat, checks) ==
    IF cat >= CAT_COUNT THEN [st |-> "ok", cs |-> <<>>, pos |-> pos]
    ELSE LET b == ReadBlock(data, pos, checks)
         IN  IF b.st # "ok" THEN [st |-> b.st, cs |-> <<>>, pos |-> pos]
             ELSE LET rest == ReadStreams(data, b.pos, cat + 1, checks)
                  IN  [st |-> rest.st, cs |-> <<b.bytes>> \o rest.cs, pos |-> rest.pos]

NoHeader == [orig_len |-> Zeros(8), use_be |-> FALSE, runs_data |-> <<>>,
             cs |-> [c \in Cats |-> <<>>], jt_meta |-> <<>>]

\* the header and the blocks of a container: [st, h]
ReadContainer(data, checks) ==
    IF Len(data) < 13 THEN [st |-> "err", h |-> NoHeader]
    ELSE IF SubSeq(data, 1, 4) # MAGIC THEN [st |-> "err", h |-> NoHeader]
    ELSE LET runs == ReadBlock(data, 13, checks)
         IN  IF runs.st # "ok" THEN [st |-> runs.st, h |-> NoHeader]
             ELSE LET ss == ReadStreams(data, runs.pos, 0, checks)
                  IN  IF ss.st # "ok" THEN [st |-> ss.st, h |-> NoHeader]
                      ELSE LET jt == ReadBlock(data, ss.pos, checks)
                           IN  IF jt.st # "ok" THEN [st |-> jt.st, h |-> NoHeader]
                               ELSE [st |-> "ok",
                                     h |-> [orig_len |-> Slice(data, 4, 8),
                                            use_be |-> data[13] = 1,
                                            runs_data |-> runs.bytes,
                                            cs |-> [c \in Cats |-> ss.cs[c + 1]],
                                            jt_meta |-> jt.bytes]]

\* val >> 4 of a u64
Shr4(w) == [i \in 1..8 |-> (w[i] \div 16) + (IF i < 8 THEN (w[i + 1] % 16) * 16 ELSE 0)]

\* a reassembly pass without the check against the output length
ReplayStepUnbounded(runs_data, run_pos, skel_pos, skel_len, cursors, streams) ==
    LET r == read_varint(runs_data, run_pos)
        cat == r.val[1] % 16
        count == Shr4(r.val)
        bad(reason) == [st |-> "err", why |-> reason, cat |-> cat, count |-> 0, run_pos |-> r.pos]
    IN  IF ~r.ok THEN bad("varint")
        ELSE IF cat >= CAT_COUNT THEN bad("bad category")
        ELSE IF ~FitsNat(count) THEN bad("runs exceed output length")
        ELSE IF cursors[cat] + WToNat(count) > Len(streams[cat])
             THEN bad("stream underflow")
        ELSE [st |-> "ok", why |-> "", cat |-> cat, count |-> WToNat(count), run_pos |-> r.pos]

\* one pass of the reassembly loop: [st, cat, count, run_pos]
ReplayStep(runs_data, run_pos, skel_pos, skel_len, cursors, streams) ==
    LET r == read_varint(runs_data, run_pos)
        cat == r.val[1] % 16
        count == Shr4(r.val)
        bad(reason) == [st |-> "err", why |-> reason, cat |-> cat, count |-> 0, run_pos |-> r.pos]
    IN  IF ~r.ok THEN bad("varint")
        ELSE IF cat >= CAT_COUNT THEN bad("bad category")
        ELSE IF ~FitsNat(count) \/ skel_pos + WToNat(count) > skel_len
             THEN bad("runs exceed output length")
        ELSE IF cursors[cat] + WToNat(count) > Len(streams[cat])
             THEN bad("stream underflow")
        ELSE [st |-> "ok", why |-> "", cat |-> cat, count |-> WToNat(count), run_pos |-> r.pos]

\* ------------------------------------------------------------------------
\* State
\* ------------------------------------------------------------------------
Modes == {"le", "be"}

UseBe(m) == m = "be"

VARIABLES
    argc,       \* args.len(): the program name, the subcommand, the paths
    cmd,        \* args[1], the driver's subcommand ("" when there is none)
    io,         \* what main did to the file system: "read", "write"
    checks,     \* the build panics on integer overflow (debug) or wraps (release)
    file,       \* the bytes read from the input path
    obj,        \* what the object parser returns for the image
    comp,       \* per endian mode: the state of one compress_with_mode call
    packed,     \* the container compress returned
    dpc,        \* where main is: main (started), exit2, argpanic (args[3] is out
                \* of bounds), idle (in compress), packed (compress returned to
                \* the compress subcommand), exit0, and inside decompress: read,
                \* decode, replay, inv_et, inv_jt, inv_eh, inv_pb, done, err (Err
                \* returned), panic
    data,       \* the container decompress was given
    hdr,        \* its header and blocks
    dstreams,   \* the decoded and unfiltered category streams
    cursors,    \* per category, the bytes of its stream consumed
    run_pos,    \* position in the control stream
    skel_pos,   \* position in the output image
    dskel,      \* the image being reassembled, then inverted
    why,        \* the message of the Err decompress returned
    jobs,       \* per endian mode and chunk of the parallel map of
                \* compress_with_mode: the jobs of the chunk that have run
    djobs,      \* the same for the parallel map of decompress
    dres        \* per category, what its decompress_xz job returned

vars == <<argc, cmd, io, checks, file, obj, comp, packed, dpc, data, hdr, dstreams,
          cursors, run_pos, skel_pos, dskel, why, jobs, djobs, dres>>

\* ------------------------------------------------------------------------
\* The parallel maps: streams.par_iter() and compressed_streams.par_iter()
\* ------------------------------------------------------------------------
\* how many times the index range of a parallel map is halved
JobSplits == 1

\* the index range [lo, hi) halved `splits` times: the chunks, each of which
\* runs its jobs in index order, while the chunks run in any order
RECURSIVE SplitRange(_, _, _)
SplitRange(lo, hi, splits) ==
    IF splits = 0 \/ hi - lo < 2 THEN << <<lo, hi>> >>
    ELSE LET mid == lo + ((hi - lo) \div 2)
         IN  SplitRange(lo, mid, splits - 1) \o SplitRange(mid, hi, splits - 1)

JobChunks == SplitRange(0, CAT_COUNT, JobSplits)

NoJobs == [k \in 1..Len(JobChunks) |-> 0]

\* the category whose job chunk k runs next, and whether it has run them all
NextJob(done, k) == JobChunks[k][1] + done[k]

ChunkDone(done, k) == NextJob(done, k) >= JobChunks[k][2]

\* a collect that stores a job's result in the first slot still empty
CollectedByArrival(cs, cat, out) ==
    LET free == {c \in Cats : cs[c] = <<>>}
    IN  IF free = {} THEN cs
        ELSE [cs EXCEPT ![CHOOSE c \in free : \A d \in free : c <= d] = out]

\* collect() of an indexed parallel iterator: the result of job `cat` is
\* element `cat` of the vector
Collected(cs, cat, out) == [cs EXCEPT ![cat] = out]


NoStreams == [c \in Cats |-> <<>>]

CompStart(f) == [pc |-> "pb", skel |-> f, meta |-> <<>>, tables |-> <<>>, labels |-> <<>>,
                 runs |-> <<>>, streams |-> NoStreams, fstreams |-> NoStreams,
                 cs |-> NoStreams, box |-> <<>>]

CompIdle == [CompStart(<<>>) EXCEPT !.pc = "idle"]

\* ------------------------------------------------------------------------
\* Inputs: files with the object the parser sees in them
\* ------------------------------------------------------------------------
MaxRaw == 3

A(n) == NatToW(n, 8)

Sec(name, kind, addr, fo, fsize) ==
    [name |-> name, kind |-> kind, addr |-> addr, range |-> TRUE, fo |-> fo,
     fsize |-> fsize, size |-> fsize]

Obj(arch, le, is64, segs, secs) ==
    [parse |-> TRUE, arch |-> arch, le |-> le, is64 |-> is64, segs |-> segs, secs |-> secs]

X64(segs, secs) == Obj("x86_64", TRUE, TRUE, segs, secs)

\* object::File::parse failed
NoObj == [parse |-> FALSE, arch |-> "none", le |-> FALSE, is64 |-> FALSE,
          segs |-> <<>>, secs |-> <<>>]

SeqsUpTo(S, n) == UNION {[1..k -> S] : k \in 0..n}

\* the first bytes of a file, covered by no section
FileHead == <<127, 69>>

\* segment layouts: none (image base 0), or two segments the lower at 0x400000
SegLayouts == {<<>>, <<A(6291456), A(4194304)>>}

RawInputs ==
    {[file |-> s, obj |-> NoObj] : s \in SeqsUpTo({0, 255}, MaxRaw)}
    \cup {[file |-> [i \in 1..16 |-> 255], obj |-> NoObj]}

\* .text ----------------------------------------------------------------
\* the last value is stored as 0x00909090 when next_ip is 0xFFFFFFFF and the
\* image base 0x400000
Fields32 == {<<0, 0, 0, 0>>, <<232, 144, 139, 5>>, <<16, 0, 0, 128>>, <<145, 144, 208, 0>>}

CodeSet ==
    {<<232>> \o f \o <<144>> : f \in Fields32}
    \cup {<<139, 5>> \o f \o <<195>> : f \in Fields32}
    \cup {<<15, 132>> \o f : f \in {<<0, 0, 0, 0>>, <<144, 0, 0, 0>>}}
    \cup {<<233>> \o f \o <<141, 5>> \o g : f \in {<<250, 255, 255, 255>>, <<0, 0, 0, 0>>},
                                            g \in {<<1, 0, 0, 0>>, <<0, 0, 0, 0>>}}
    \cup {<<144, 232, 0, 0>>, <<144, 144, 144, 144, 144, 0>>}

\* the segments with the address of .text: 0x401000, or so high that next_ip
\* wraps in 32 bits
TextPlaces == {<<<<>>, A(4198400)>>, <<<<A(6291456), A(4194304)>>, A(4198400)>>,
               <<<<A(6291456), A(4194304)>>, <<250, 255, 255, 255, 0, 0, 0, 0>>>>}

NAME_INIT == <<".", "i", "n", "i", "t">>

TextInputs ==
    {[file |-> FileHead \o code,
      obj |-> X64(pl[1], <<Sec(NAME_TEXT, "Text", pl[2], 2, Len(code))>>)] :
        code \in CodeSet, pl \in TextPlaces}
    \cup
    \* two Text-kind sections, the second not named .text
    {[file |-> FileHead \o <<232, 1, 0, 0, 0>> \o <<233, 2, 0, 0, 0>>,
      obj |-> X64(segs, <<Sec(NAME_TEXT, "Text", A(4198400), 2, 5),
                          Sec(NAME_INIT, "Text", A(4202496), 7, 5)>>)] : segs \in SegLayouts}

\* .eh_frame_hdr ---------------------------------------------------------
EhFieldPairs == {<<16, 0, 0, 0>> \o <<240, 255, 255, 255>>,
                 <<0, 0, 0, 128>> \o <<255, 255, 255, 127>>}

\* the section at 0x402000, above 4 GiB, or below the image base
EhVAs == {A(4202496), <<0, 32, 0, 0, 1, 0, 0, 0>>, A(16)}

EhData(version, penc, cenc, tenc, cnt, fields) ==
    <<version, penc, cenc, tenc>>
    \o (IF penc = 255 THEN <<>> ELSE <<4, 0, 0, 0>>)
    \o NatToW(cnt, 4) \o fields

EhObj(segs, va, d) == X64(segs, <<Sec(NAME_EH_FRAME_HDR, "Other", va, 2, Len(d))>>)

EhInputs ==
    {[file |-> FileHead \o EhData(1, 255, 3, tenc, 1, fp),
      obj |-> EhObj(segs, va, EhData(1, 255, 3, tenc, 1, fp))] :
        tenc \in {27, 59}, fp \in EhFieldPairs, segs \in SegLayouts, va \in EhVAs}
    \cup
    \* an eh_frame_ptr of 4 bytes before the count; then
    \* sections the patcher does not handle: version, table encoding,
    \* fde_count size, a table longer than the section
    {[file |-> FileHead \o d, obj |-> EhObj(<<>>, A(4202496), d)] :
        d \in {EhData(1, 27, 3, 27, 1, <<16, 0, 0, 0, 32, 0, 0, 0>>),
               EhData(2, 255, 3, 27, 1, <<16, 0, 0, 0, 32, 0, 0, 0>>),
               EhData(1, 255, 3, 0, 1, <<16, 0, 0, 0, 32, 0, 0, 0>>),
               EhData(1, 255, 4, 27, 1, <<16, 0, 0, 0, 32, 0, 0, 0>>),
               EhData(1, 255, 3, 27, 2, <<16, 0, 0, 0, 32, 0, 0, 0>>)}}

\* .rodata / .data.rel.ro jump tables ------------------------------------
\* .text at 0x401000
JtTextVA == 4194304 + 4096

JtTextCode == <<144, 144, 144, 195>>

\* an entry of kind "I" points into .text, "B" at its end, "O" at itself
JtEntry(kind, sec_va, k) ==
    IF kind = "O" THEN <<0, 0, 0, 0>>
    ELSE Trunc32(SubW(A(JtTextVA + (IF kind = "B" THEN Len(JtTextCode) ELSE k % Len(JtTextCode))),
                      A(sec_va + 4 * k)))

RECURSIVE JtEntries(_, _, _)
JtEntries(pattern, sec_va, k) ==
    IF k >= Len(pattern) THEN <<>>
    ELSE JtEntry(pattern[k + 1], sec_va, k) \o JtEntries(pattern, sec_va, k + 1)

JtPatterns == {<<"I", "I", "I", "I", "I", "I">>, <<"I", "I", "I", "I", "O", "O">>,
               <<"O", "I", "I", "I", "I", "O">>, <<"I", "I", "I", "O", "I", "I">>,
               <<"I", "I", "I", "I", "B", "I">>, <<"O", "O", "I", "I", "I", "I">>,
               <<"I", "I", "I", "I", "I">>, <<"I", "I", "I", "I">>}

JtTextSec == Sec(NAME_TEXT, "Text", A(JtTextVA), 2, Len(JtTextCode))

JtInputs ==
    {[file |-> FileHead \o JtTextCode \o JtEntries(pat, 4202496, 0) \o nt[2],
      obj |-> X64(segs, <<JtTextSec,
                          Sec(nt[1], "Other", A(4202496), 6, 4 * Len(pat) + Len(nt[2]))>>)] :
        pat \in JtPatterns, segs \in SegLayouts,
        nt \in {<<NAME_RODATA, <<>>>>, <<NAME_DATA_REL_RO, <<7, 7>>>>}}
    \cup
    \* a table in each of two sections, enumerated in the order of their file
    \* offsets and against it
    {[file |-> FileHead \o JtTextCode \o JtEntries(<<"I", "I", "I", "I">>, 4202496, 0)
                       \o JtEntries(<<"I", "I", "I", "I">>, 4206592, 0),
      obj |-> X64(<<>>, <<JtTextSec>> \o secs)] :
        secs \in {<<Sec(NAME_DATA_REL_RO, "Other", A(4202496), 6, 16),
                    Sec(NAME_RODATA, "Other", A(4206592), 22, 16)>>,
                  <<Sec(NAME_RODATA, "Other", A(4206592), 22, 16),
                    Sec(NAME_DATA_REL_RO, "Other", A(4202496), 6, 16)>>}}
    \cup
    \* no .text, and an empty .text
    {[file |-> FileHead \o JtEntries(<<"I", "I", "I", "I">>, 4202496, 0),
      obj |-> X64(<<>>, secs)] :
        secs \in {<<Sec(NAME_RODATA, "Other", A(4202496), 2, 16)>>,
                  <<Sec(NAME_TEXT, "Text", A(JtTextVA), 2, 0),
                    Sec(NAME_RODATA, "Other", A(4202496), 2, 16)>>}}

\* typed tables and numeric sections ------------------------------------
NAME_RELA_DYN == <<".", "r", "e", "l", "a", ".", "d", "y", "n">>

NAME_REL_PLT == <<".", "r", "e", "l", ".", "p", "l", "t">>

NAME_RELR_DYN == <<".", "r", "e", "l", "r", ".", "d", "y", "n">>

NAME_GOT == <<".", "g", "o", "t">>

NAME_GNU_HASH == <<".", "g", "n", "u", ".", "h", "a", "s", "h">>

NAME_RODATA_CST16 == <<".", "r", "o", "d", "a", "t", "a", ".", "c", "s", "t", "1", "6">>

NAME_COMMENT == <<".", "c", "o", "m", "m", "e", "n", "t">>

\* a section's name with the sizes it is tried at
TableShapes ==
    {<<NAME_RELA_DYN, 24>>, <<NAME_RELA_DYN, 48>>, <<NAME_RELA_DYN, 25>>,
     <<NAME_REL_PLT, 32>>, <<NAME_REL_PLT, 17>>,
     <<NAME_DYNSYM, 48>>, <<NAME_SYMTAB, 24>>,
     <<NAME_RELR_DYN, 24>>, <<NAME_RELR_DYN, 12>>,
     <<NAME_DYNAMIC, 32>>, <<NAME_DYNAMIC, 48>>, <<NAME_DYNAMIC, 15>>,
     <<NAME_GNU_VERSION, 4>>, <<NAME_GNU_VERSION, 3>>,
     <<NAME_GOT, 16>>, <<NAME_GOT, 12>>,
     <<NAME_GNU_HASH, 8>>, <<NAME_GNU_HASH, 6>>,
     <<NAME_RODATA_CST16, 16>>, <<NAME_STRTAB, 3>>, <<NAME_COMMENT, 2>>}

\* table contents: two byte patterns
TableFill(which, n) == [k \in 1..n |-> IF which = 0 THEN (k * 37 + 11) % 256 ELSE (200 - 2 * k) % 256]

RelrMixed == {A(16) \o A(3) \o A(48), A(1) \o A(32) \o A(16), A(32) \o A(5) \o A(7) \o A(8)}

TableInputs ==
    {[file |-> FileHead \o TableFill(w, sh[2]) \o <<9>>,
      obj |-> X64(<<>>, <<Sec(sh[1], "Other", A(4206592), 2, sh[2])>>)] :
        sh \in TableShapes, w \in {0}}
    \cup
    {[file |-> FileHead \o TableFill(1, sh[2]) \o <<9>>,
      obj |-> X64(<<>>, <<Sec(sh[1], "Other", A(4206592), 2, sh[2])>>)] :
        sh \in {<<NAME_RELA_DYN, 48>>, <<NAME_RELR_DYN, 24>>, <<NAME_GOT, 12>>}}
    \cup
    \* .relr.dyn with address entries (low bit 0) and bitmap entries (low bit 1)
    {[file |-> FileHead \o r,
      obj |-> X64(<<>>, <<Sec(NAME_RELR_DYN, "Other", A(4206592), 2, Len(r))>>)] : r \in RelrMixed}

\* objects the transforms are not for ------------------------------------
ForeignKinds == {<<"aarch64", TRUE, TRUE>>, <<"x86_64", FALSE, TRUE>>, <<"x86_64", TRUE, FALSE>>}

ForeignBase ==
    {[file |-> FileHead \o <<232, 0, 0, 0, 0, 144>>,
      obj |-> X64(<<>>, <<Sec(NAME_TEXT, "Text", A(4198400), 2, 6)>>)],
     [file |-> FileHead \o EhData(1, 255, 3, 27, 1, <<16, 0, 0, 0, 32, 0, 0, 0>>),
      obj |-> EhObj(<<>>, A(4202496), EhData(1, 255, 3, 27, 1, <<16, 0, 0, 0, 32, 0, 0, 0>>))],
     [file |-> FileHead \o JtTextCode \o JtEntries(<<"I", "I", "I", "I">>, 4202496, 0),
      obj |-> X64(<<>>, <<JtTextSec, Sec(NAME_RODATA, "Other", A(4202496), 6, 16)>>)],
     [file |-> FileHead \o TableFill(0, 24),
      obj |-> X64(<<>>, <<Sec(NAME_RELA_DYN, "Other", A(4206592), 2, 24)>>)]}

ForeignInputs ==
    {[file |-> inp.file, obj |-> Obj(k[1], k[2], k[3], inp.obj.segs, inp.obj.secs)] :
        inp \in ForeignBase, k \in ForeignKinds}

FileInputs == RawInputs \cup TextInputs \cup EhInputs \cup JtInputs \cup TableInputs \cup ForeignInputs

\* ------------------------------------------------------------------------
\* Inputs: containers handed to decompress that compress did not write
\* ------------------------------------------------------------------------
MaxRuns == 2

MaxOrigLen == 2

\* one run of the control stream: (count << 4) | cat
RunVarint(cat, count) == write_varint(NatToW(count * 16 + cat, 8))

RunChoices == {RunVarint(CAT_OTHER, 1), RunVarint(CAT_OTHER, 2), RunVarint(CAT_CODE, 1),
               RunVarint(CAT_COUNT, 1), RunVarint(CAT_CODE, 0)}

RECURSIVE Concat(_)
Concat(ss) == IF ss = <<>> THEN <<>> ELSE Head(ss) \o Concat(Tail(ss))

ControlStreams == {Concat(rs) : rs \in SeqsUpTo(RunChoices, MaxRuns)}

\* compressed category streams: OTHER and CODE vary, the rest are empty
StreamSets ==
    {[c \in Cats |-> IF c = CAT_OTHER THEN o ELSE IF c = CAT_CODE THEN k ELSE <<>>] :
        o \in {<<>>, XzEncode(<<7>>, 3), XzEncode(<<7, 8>>, 0)},
        k \in {<<>>, XzEncode(<<9>>, 3)}}

WellFormedContainers ==
    {Container(n, FALSE, runs, cs, <<>>) :
        n \in 0..MaxOrigLen, runs \in ControlStreams, cs \in StreamSets}

\* a length whose block would pass the end of the input when block k of the
\* container of the empty image carries it: one byte too many, 2^64 - 1
\* (position + length wraps), and 2^63
BadLengths(k) == {<<17 - k>>, write_varint(Ones(8)), write_varint(<<0, 0, 0, 0, 0, 0, 0, 128>>)}

\* the container of the empty image with the length of block k (0: the
\* control stream, 1..15: the category streams, 16: the side table) replaced
BadLengthContainer(k, len) ==
    MAGIC \o Zeros(8) \o <<0>> \o [i \in 1..k |-> 0] \o len \o [i \in 1..(16 - k) |-> 0]

BadLengthContainers == UNION {{BadLengthContainer(k, len) : len \in BadLengths(k)} : k \in 0..16}

\* short inputs, a wrong magic, a flag that is neither 0 nor 1, a truncated
\* or overlong varint, a stream the entropy decoder rejects, a control
\* stream cut inside a varint
MalformedContainers ==
    {<<>>, MAGIC, MAGIC \o Zeros(8),
     <<70, 69, 83, 68>> \o Zeros(8) \o <<0>> \o Zeros(17),
     MAGIC \o Zeros(8) \o <<2>> \o Zeros(17),
     MAGIC \o Zeros(8) \o <<0>> \o Zeros(16),
     MAGIC \o Zeros(8) \o <<0>> \o <<128>>,
     MAGIC \o Zeros(8) \o <<0>> \o [i \in 1..10 |-> 128] \o Zeros(17),
     Container(1, FALSE, RunVarint(CAT_OTHER, 1), [NoStreams EXCEPT ![CAT_OTHER] = <<9, 1, 7>>], <<>>),
     Container(1, FALSE, RunVarint(CAT_OTHER, 1), [NoStreams EXCEPT ![CAT_OTHER] = <<3, 1>>], <<>>),
     Container(1, FALSE, <<144>>, [NoStreams EXCEPT ![CAT_OTHER] = XzEncode(<<7>>, 3)], <<>>),
     Container(1, TRUE, RunVarint(CAT_JT4, 1), [NoStreams EXCEPT ![CAT_JT4] = XzEncode(<<7>>, 0)], <<1, 0, 4>>)}

\* ten-byte varints: nine continuation bytes of payload 0 and a last byte p
TenByteVarint(p) == [i \in 1..9 |-> 128] \o <<p>>

\* the container of the empty image whose control-stream length is such a
\* varint, and a one-byte image whose only run is written in ten bytes
VarintContainers ==
    {BadLengthContainer(0, TenByteVarint(p)) : p \in {0, 1, 2, 3, 127}}
    \cup {Container(1, FALSE, <<144>> \o [i \in 1..8 |-> 128] \o <<p>>,
                     [NoStreams EXCEPT ![CAT_OTHER] = XzEncode(<<7>>, 3)], <<>>) : p \in {0, 2}}

ContainerInputs ==
    WellFormedContainers \cup BadLengthContainers \cup MalformedContainers \cup VarintContainers

\* ------------------------------------------------------------------------
\* Inputs: command lines
\* ------------------------------------------------------------------------
\* the most arguments tried, the program name included
MaxArgs == 5

\* every subcommand, one that does not exist and none at all, with every
\* number of arguments, over a few files
DriverInputs ==
    {[argc |-> 1, cmd |-> "", file |-> <<>>, obj |-> NoObj]}
    \cup {[argc |-> n, cmd |-> c, file |-> f, obj |-> NoObj] :
             n \in 2..MaxArgs, c \in {"compare", "compress", "bogus"},
             f \in {<<>>, <<0, 255>>}}
    \cup {[argc |-> n, cmd |-> "compress", file |-> i.file, obj |-> i.obj] :
             n \in {4}, i \in {j \in TextInputs \cup TableInputs : Len(j.file) <= 16}}
    \cup {[argc |-> n, cmd |-> "decompress", file |-> f, obj |-> NoObj] :
             n \in 2..MaxArgs,
             f \in {Container(0, FALSE, <<>>, NoStreams, <<>>),
                    Container(1, FALSE, <<16>>, [NoStreams EXCEPT ![CAT_OTHER] = XzEncode(<<7>>, 3)], <<>>),
                    <<70, 69>>}}

Inputs == {[argc |-> 3, cmd |-> "compare", file |-> i.file, obj |-> i.obj] : i \in FileInputs}
          \cup {[argc |-> 4, cmd |-> "decompress", file |-> c, obj |-> NoObj] : c \in ContainerInputs}
          \cup DriverInputs

\* ------------------------------------------------------------------------
\* Initial state: main is entered
\* ------------------------------------------------------------------------
InitFrom(inputs) ==
    \E inp \in inputs :
        /\ argc = inp.argc
        /\ cmd = inp.cmd
        /\ io = {}
        /\ checks \in BOOLEAN
        /\ file = inp.file
        /\ obj = inp.obj
        /\ comp = [m \in Modes |-> CompIdle]
        /\ packed = <<>>
        /\ dpc = "main"
        /\ data = <<>>
        /\ hdr = NoHeader
        /\ dstreams = NoStreams
        /\ cursors = [c \in Cats |-> 0]
        /\ run_pos = 0
        /\ skel_pos = 0
        /\ dskel = <<>>
        /\ why = ""
        /\ jobs = [m \in Modes |-> NoJobs]
        /\ djobs = NoJobs
        /\ dres = [c \in Cats |-> [ok |-> TRUE, out |-> <<>>]]

Init == InitFrom(Inputs)

\* ------------------------------------------------------------------------
\* compress_with_mode, one stage per action, for each of the two probe tasks
\* ------------------------------------------------------------------------
DecUnchanged == UNCHANGED <<dpc, data, hdr, dstreams, cursors, run_pos, skel_pos, dskel, why>>

InUnchanged == UNCHANGED <<argc, cmd, checks, file, obj>>

MainUnchanged == UNCHANGED io

JobsUnchanged == UNCHANGED <<jobs, djobs, dres>>

\* ------------------------------------------------------------------------
\* main: the argument count, the subcommand, the read of the input
\* ------------------------------------------------------------------------
\* fs::write(&args[3], ..) evaluates &args[3] before the call of compress or
\* decompress in its second argument
Main ==
    /\ dpc = "main"
    /\ IF argc < 3 \/ cmd \notin {"compare", "compress", "decompress"}
       THEN /\ dpc' = "exit2"
            /\ UNCHANGED <<io, comp, data>>
       ELSE /\ io' = io \cup {"read"}
            /\ IF cmd = "compare"
               THEN /\ comp' = [m \in Modes |-> CompStart(file)]
                    /\ dpc' = "idle"
                    /\ UNCHANGED data
               ELSE IF argc < 4
               THEN /\ dpc' = "argpanic"
                    /\ UNCHANGED <<comp, data>>
               ELSE IF cmd = "compress"
               THEN /\ comp' = [m \in Modes |-> CompStart(file)]
                    /\ dpc' = "idle"
                    /\ UNCHANGED data
               ELSE /\ data' = file
                    /\ dpc' = "read"
                    /\ UNCHANGED comp
    /\ UNCHANGED <<packed, hdr, dstreams, cursors, run_pos, skel_pos, dskel, why>>
    /\ InUnchanged /\ JobsUnchanged

\* the fs::write of the compress and decompress subcommands
WriteOutput ==
    /\ \/ cmd = "compress" /\ dpc = "packed"
       \/ cmd = "decompress" /\ dpc = "done" /\ "write" \notin io
    /\ io' = io \cup {"write"}
    /\ dpc' = IF cmd = "compress" THEN "exit0" ELSE dpc
    /\ UNCHANGED <<comp, packed, data, hdr, dstreams, cursors, run_pos, skel_pos, dskel, why>>
    /\ InUnchanged /\ JobsUnchanged

ProcessBinary(m) ==
    /\ comp[m].pc = "pb"
    /\ comp' = [comp EXCEPT ![m] = [@ EXCEPT !.pc = "eh",
                   !.skel = process_binary(obj, @, TRUE, UseBe(m))]]
    /\ UNCHANGED packed /\ DecUnchanged /\ InUnchanged /\ MainUnchanged /\ JobsUnchanged

ProcessEhFrameHdr(m) ==
    /\ comp[m].pc = "eh"
    /\ comp' = [comp EXCEPT ![m] = [@ EXCEPT !.pc = "jt",
                   !.skel = process_eh_frame_hdr(obj, @, TRUE, UseBe(m))]]
    /\ UNCHANGED packed /\ DecUnchanged /\ InUnchanged /\ MainUnchanged /\ JobsUnchanged

ProcessJumpTables(m) ==
    /\ comp[m].pc = "jt"
    /\ LET r == process_jump_tables(obj, comp[m].skel, TRUE, UseBe(m), <<>>, checks)
       IN  comp' = [comp EXCEPT ![m] =
                       IF r.st = "ok"
                       THEN [@ EXCEPT !.pc = "et", !.skel = r.out, !.meta = r.meta,
                                      !.tables = r.tables]
                       ELSE [@ EXCEPT !.pc = "panic"]]
    /\ UNCHANGED packed /\ DecUnchanged /\ InUnchanged /\ MainUnchanged /\ JobsUnchanged

ProcessElfTables(m) ==
    /\ comp[m].pc = "et"
    /\ comp' = [comp EXCEPT ![m] = [@ EXCEPT !.pc = "split",
                   !.skel = process_elf_tables(obj, @, TRUE)]]
    /\ UNCHANGED packed /\ DecUnchanged /\ InUnchanged /\ MainUnchanged /\ JobsUnchanged

SplitStreams(m) ==
    /\ comp[m].pc = "split"
    /\ LET r == split_streams(obj, comp[m].skel, comp[m].tables)
       IN  comp' = [comp EXCEPT ![m] = [@ EXCEPT !.pc = "code", !.labels = r.labels,
                       !.runs = r.runs, !.streams = r.streams]]
    /\ UNCHANGED packed /\ DecUnchanged /\ InUnchanged /\ MainUnchanged /\ JobsUnchanged

\* byte-swap and transpose, the parallel map over the categories, and the
\* container
EncodeStreams(m) ==
    /\ comp[m].pc = "code"
    /\ LET fs == [c \in Cats |-> FilterStream(comp[m].streams[c], c)]
           cs == [c \in Cats |-> CompressJob(c, fs[c])]
       IN  comp' = [comp EXCEPT ![m] = [@ EXCEPT !.pc = "done", !.fstreams = fs, !.cs = cs,
                       !.box = Container(Len(file), UseBe(m), comp[m].runs, cs, comp[m].meta)]]
    /\ UNCHANGED packed /\ DecUnchanged /\ InUnchanged /\ MainUnchanged /\ JobsUnchanged

\* a choice that keeps the byte-swapped container on a tie
PickContainerTieSwapped(c_le, c_be) == IF Len(c_be) <= Len(c_le) THEN c_be ELSE c_le

\* compress: the join of the two tasks and the choice of the smaller container
PickContainer(c_le, c_be) == IF Len(c_be) < Len(c_le) THEN c_be ELSE c_le

Join ==
    /\ dpc = "idle"
    /\ \A m \in Modes : comp[m].pc \in {"done", "panic"}
    /\ IF \E m \in Modes : comp[m].pc = "panic"
       THEN /\ dpc' = "panic"
            /\ UNCHANGED <<packed, data>>
       ELSE /\ packed' = PickContainer(comp["le"].box, comp["be"].box)
            /\ data' = IF cmd = "compare" THEN packed' ELSE data
            /\ dpc' = IF cmd = "compare" THEN "read" ELSE "packed"
    /\ UNCHANGED <<comp, hdr, dstreams, cursors, run_pos, skel_pos, dskel, why>> /\ InUnchanged /\ MainUnchanged /\ JobsUnchanged

\* ------------------------------------------------------------------------
\* decompress
\* ------------------------------------------------------------------------
CompUnchanged == UNCHANGED <<comp, packed>>

\* the header checks and the varint-delimited blocks
ReadHeader ==
    /\ dpc = "read"
    /\ LET r == ReadContainer(data, checks)
       IN  /\ hdr' = r.h
           /\ dpc' = IF r.st = "ok" THEN "decode" ELSE r.st
           /\ why' = IF r.st = "err" THEN "container" ELSE why
    /\ UNCHANGED <<data, dstreams, cursors, run_pos, skel_pos, dskel>>
    /\ CompUnchanged /\ InUnchanged /\ MainUnchanged /\ JobsUnchanged

\* the parallel map of decompress_xz (one failure fails the whole), the
\* inverse transpose and byte-swap, and the zeroed output image
DecodeStreams ==
    /\ dpc = "decode"
    /\ LET dec == [c \in Cats |-> decompress_xz(hdr.cs[c])]
       IN  IF \E c \in Cats : ~dec[c].ok
           THEN /\ dpc' = "err" /\ why' = "xz"
                /\ UNCHANGED <<dstreams, dskel>>
           ELSE IF ~FitsNat(hdr.orig_len)
           THEN /\ dpc' = "panic"
                /\ UNCHANGED <<dstreams, dskel, why>>
           ELSE /\ dstreams' = [c \in Cats |-> UnfilterStream(dec[c].out, c)]
                /\ dskel' = Zeros(WToNat(hdr.orig_len))
                /\ dpc' = "replay"
                /\ UNCHANGED why
    /\ UNCHANGED <<data, hdr, cursors, run_pos, skel_pos>>
    /\ CompUnchanged /\ InUnchanged /\ MainUnchanged /\ JobsUnchanged

\* one pass of the reassembly loop
ReplayRun ==
    /\ dpc = "replay"
    /\ run_pos < Len(hdr.runs_data)
    /\ LET r == ReplayStep(hdr.runs_data, run_pos, skel_pos, Len(dskel), cursors, dstreams)
       IN  IF r.st = "ok"
           THEN /\ dskel' = Patch(dskel, skel_pos, Slice(dstreams[r.cat], cursors[r.cat], r.count))
                /\ cursors' = [cursors EXCEPT ![r.cat] = @ + r.count]
                /\ skel_pos' = skel_pos + r.count
                /\ run_pos' = r.run_pos
                /\ UNCHANGED <<dpc, why>>
           ELSE /\ dpc' = "err" /\ why' = r.why
                /\ UNCHANGED <<dskel, cursors, skel_pos, run_pos>>
    /\ UNCHANGED <<data, hdr, dstreams>>
    /\ CompUnchanged /\ InUnchanged /\ MainUnchanged /\ JobsUnchanged

\* the end of the control stream: every stream must be used up
FinishRuns ==
    /\ dpc = "replay"
    /\ run_pos >= Len(hdr.runs_data)
    /\ IF \E c \in Cats : cursors[c] # Len(dstreams[c])
       THEN dpc' = "err" /\ why' = "extra bytes"
       ELSE dpc' = "inv_et" /\ UNCHANGED why
    /\ UNCHANGED <<data, hdr, dstreams, cursors, run_pos, skel_pos, dskel>>
    /\ CompUnchanged /\ InUnchanged /\ MainUnchanged /\ JobsUnchanged

InvElfTables ==
    /\ dpc = "inv_et"
    /\ dskel' = process_elf_tables(obj, dskel, FALSE)
    /\ dpc' = "inv_jt"
    /\ UNCHANGED <<data, hdr, dstreams, cursors, run_pos, skel_pos, why>>
    /\ CompUnchanged /\ InUnchanged /\ MainUnchanged /\ JobsUnchanged

InvJumpTables ==
    /\ dpc = "inv_jt"
    /\ LET r == process_jump_tables(obj, dskel, FALSE, hdr.use_be, hdr.jt_meta, checks)
       IN  /\ dskel' = r.out
           /\ dpc' = IF r.st = "ok" THEN "inv_eh" ELSE r.st
           /\ why' = IF r.st = "err" THEN "jt meta" ELSE why
    /\ UNCHANGED <<data, hdr, dstreams, cursors, run_pos, skel_pos>>
    /\ CompUnchanged /\ InUnchanged /\ MainUnchanged /\ JobsUnchanged

InvEhFrameHdr ==
    /\ dpc = "inv_eh"
    /\ dskel' = process_eh_frame_hdr(obj, dskel, FALSE, hdr.use_be)
    /\ dpc' = "inv_pb"
    /\ UNCHANGED <<data, hdr, dstreams, cursors, run_pos, skel_pos, why>>
    /\ CompUnchanged /\ InUnchanged /\ MainUnchanged /\ JobsUnchanged

InvBinary ==
    /\ dpc = "inv_pb"
    /\ dskel' = process_binary(obj, dskel, FALSE, hdr.use_be)
    /\ dpc' = "done"
    /\ UNCHANGED <<data, hdr, dstreams, cursors, run_pos, skel_pos, why>>
    /\ CompUnchanged /\ InUnchanged /\ MainUnchanged /\ JobsUnchanged

Next ==
    \/ Main
    \/ WriteOutput
    \/ \E m \in Modes : ProcessBinary(m)
    \/ \E m \in Modes : ProcessEhFrameHdr(m)
    \/ \E m \in Modes : ProcessJumpTables(m)
    \/ \E m \in Modes : ProcessElfTables(m)
    \/ \E m \in Modes : SplitStreams(m)
    \/ \E m \in Modes : EncodeStreams(m)
    \/ Join
    \/ ReadHeader
    \/ DecodeStreams
    \/ ReplayRun
    \/ FinishRuns
    \/ InvElfTables
    \/ InvJumpTables
    \/ InvEhFrameHdr
    \/ InvBinary

Spec == Init /\ [][Next]_vars

\* ------------------------------------------------------------------------
\* The same program with each job of the two parallel maps a step of its own
\* ------------------------------------------------------------------------
\* the sequential loop of byte-swap and transpose before the parallel map
StartEncode(m) ==
    /\ comp[m].pc = "code"
    /\ comp' = [comp EXCEPT ![m] = [@ EXCEPT !.pc = "jobs",
                   !.fstreams = [c \in Cats |-> FilterStream(comp[m].streams[c], c)]]]
    /\ UNCHANGED packed /\ DecUnchanged /\ InUnchanged /\ MainUnchanged /\ JobsUnchanged

\* one call of the closure of the parallel map of compress_with_mode
EncodeJob(m, k) ==
    /\ comp[m].pc = "jobs"
    /\ ~ChunkDone(jobs[m], k)
    /\ LET cat == NextJob(jobs[m], k)
       IN  comp' = [comp EXCEPT ![m] = [@ EXCEPT
                       !.cs = Collected(comp[m].cs, cat, CompressJob(cat, comp[m].fstreams[cat]))]]
    /\ jobs' = [jobs EXCEPT ![m] = [@ EXCEPT ![k] = @ + 1]]
    /\ UNCHANGED <<djobs, dres>>
    /\ UNCHANGED packed /\ DecUnchanged /\ InUnchanged /\ MainUnchanged

\* the map has collected every result: the container is written
FinishEncode(m) ==
    /\ comp[m].pc = "jobs"
    /\ \A k \in 1..Len(JobChunks) : ChunkDone(jobs[m], k)
    /\ comp' = [comp EXCEPT ![m] = [@ EXCEPT !.pc = "done",
                   !.box = Container(Len(file), UseBe(m), comp[m].runs, comp[m].cs, comp[m].meta)]]
    /\ UNCHANGED packed /\ DecUnchanged /\ InUnchanged /\ MainUnchanged /\ JobsUnchanged

\* one decompress_xz call of the parallel map of decompress
DecodeJob(k) ==
    /\ dpc = "decode"
    /\ ~ChunkDone(djobs, k)
    /\ dres' = [dres EXCEPT ![NextJob(djobs, k)] = decompress_xz(hdr.cs[NextJob(djobs, k)])]
    /\ djobs' = [djobs EXCEPT ![k] = @ + 1]
    /\ UNCHANGED jobs
    /\ UNCHANGED <<dpc, data, hdr, dstreams, cursors, run_pos, skel_pos, dskel, why>>
    /\ CompUnchanged /\ InUnchanged /\ MainUnchanged

\* collect::<Result<Vec<_>, _>>()?: an Err as soon as a job has failed, the
\* streams once every job has returned; then the inverse transpose and
\* byte-swap and the zeroed output image
FinishDecode ==
    /\ dpc = "decode"
    /\ \/ \E c \in Cats : ~dres[c].ok
       \/ \A k \in 1..Len(JobChunks) : ChunkDone(djobs, k)
    /\ IF \E c \in Cats : ~dres[c].ok
       THEN /\ dpc' = "err" /\ why' = "xz"
            /\ UNCHANGED <<dstreams, dskel>>
       ELSE IF ~FitsNat(hdr.orig_len)
       THEN /\ dpc' = "panic"
            /\ UNCHANGED <<dstreams, dskel, why>>
       ELSE /\ dstreams' = [c \in Cats |-> UnfilterStream(dres[c].out, c)]
            /\ dskel' = Zeros(WToNat(hdr.orig_len))
            /\ dpc' = "replay"
            /\ UNCHANGED why
    /\ UNCHANGED <<data, hdr, cursors, run_pos, skel_pos>>
    /\ CompUnchanged /\ InUnchanged /\ MainUnchanged /\ JobsUnchanged

\* command lines for it: an image with streams in both halves of the
\* categories, and containers with a block decompress_xz rejects
JobInputs ==
    {[argc |-> 3, cmd |-> "compare",
      file |-> FileHead \o JtTextCode \o JtEntries(<<"I", "I", "I", "I">>, 4202496, 0) \o <<7, 7>>,
      obj |-> X64(<<>>, <<JtTextSec, Sec(NAME_DATA_REL_RO, "Other", A(4202496), 6, 18)>>)]}
    \cup {[argc |-> 4, cmd |-> "decompress", file |-> c, obj |-> NoObj] :
             c \in {Container(1, FALSE, <<16>>, [NoStreams EXCEPT ![CAT_OTHER] = XzEncode(<<7>>, 3)], <<>>),
                    Container(1, FALSE, <<16>>, [NoStreams EXCEPT ![CAT_OTHER] = XzEncode(<<7>>, 3),
                                                                  ![CAT_RELA24] = <<9, 1, 7>>], <<>>),
                    Container(1, FALSE, <<16>>, [NoStreams EXCEPT ![CAT_OTHER] = XzEncode(<<7>>, 3),
                                                                  ![CAT_STR] = <<3, 1>>], <<>>),
                    Container(2, FALSE, <<16>> \o RunVarint(CAT_EH, 1),
                              [NoStreams EXCEPT ![CAT_OTHER] = XzEncode(<<7>>, 3),
                                                ![CAT_EH] = XzEncode(<<9>>, 3)], <<>>)}}

InitJobs == InitFrom(JobInputs)

NextJobs ==
    \/ Main
    \/ WriteOutput
    \/ \E m \in Modes : ProcessBinary(m)
    \/ \E m \in Modes : ProcessEhFrameHdr(m)
    \/ \E m \in Modes : ProcessJumpTables(m)
    \/ \E m \in Modes : ProcessElfTables(m)
    \/ \E m \in Modes : SplitStreams(m)
    \/ \E m \in Modes : StartEncode(m)
    \/ \E m \in Modes : \E k \in 1..Len(JobChunks) : EncodeJob(m, k)
    \/ \E m \in Modes : FinishEncode(m)
    \/ Join
    \/ ReadHeader
    \/ \E k \in 1..Len(JobChunks) : DecodeJob(k)
    \/ FinishDecode
    \/ ReplayRun
    \/ FinishRuns
    \/ InvElfTables
    \/ InvJumpTables
    \/ InvEhFrameHdr
    \/ InvBinary

SpecJobs == InitJobs /\ [][NextJobs]_vars

\* decompress returned an image / main's assert_eq! in compare
Returned == dpc = "done"

\* ========================================================================
\* Properties
\* ========================================================================
\* compress returned: both probe tasks ended without a panic and were joined
Compressed == cmd = "compare" /\ dpc # "idle" /\ \A m \in Modes : comp[m].pc = "done"

\* decompress ended: an image, an Err, or a panic
Ended == dpc \in {"done", "err", "panic"}

\* C1: for every input file, decompress(compress(B)) succeeds and returns
\* exactly B (compare's assert_eq!), whichever endian mode the probe kept.
C1_RoundTrip == (cmd = "compare" /\ Ended) => (dpc = "done" /\ dskel = file)

\* C2: for an input that is not a parseable 64-bit little-endian x86-64
\* object, every transform stage leaves the image as it was, the jump-table
\* side information is empty, every byte is labelled OTHER and the control
\* stream is one OTHER run over the whole image.
C2_ForeignUntouched ==
    \A m \in Modes :
        (cmd = "compare" /\ ~(obj.parse /\ IsX64LE(obj)) /\ comp[m].pc \in {"code", "done"})
        => /\ comp[m].skel = file
           /\ comp[m].meta = <<>>
           /\ \A k \in 1..Len(file) : comp[m].labels[k] = CAT_OTHER
           /\ (file # <<>> => comp[m].runs = RunVarint(CAT_OTHER, Len(file)))

\* C3: compress returns one of the two containers of the probe, of the
\* smaller length, the native one on a tie, and the flag byte at offset 12
\* tells which: 0 for the native container, 1 for the byte-swapped one.
C3_ProbeKeepsSmaller ==
    Compressed =>
        LET c_le == comp["le"].box
            c_be == comp["be"].box
        IN  /\ packed \in {c_le, c_be}
            /\ Len(packed) <= Len(c_le) /\ Len(packed) <= Len(c_be)
            /\ (Len(c_le) = Len(c_be) => packed = c_le)
            /\ (packed[13] = 0 <=> packed = c_le)
            /\ (packed[13] = 1 <=> packed = c_be)

\* C3 witness: the byte-swapped container was strictly smaller and was kept
C3_SwappedKept ==
    /\ Compressed
    /\ Len(comp["be"].box) < Len(comp["le"].box)
    /\ packed = comp["be"].box
    /\ packed[13] = 1

\* C4: a block length that would pass the end of the input, a length so
\* large that position + length wraps included, makes decompress return an
\* error, never crash; so does an input shorter than 13 bytes or one that
\* does not start with FESC.
C4_BadLengthIsError ==
    cmd = "decompress" =>
        /\ dpc # "panic"
        /\ (dpc \notin {"main", "exit2", "argpanic", "read"} /\ (Len(file) < 13 \/ SubSeq(file, 1, 4) # MAGIC)) => dpc = "err"

\* the run the reassembly loop is about to read
C5_NextRun ==
    LET r == read_varint(hdr.runs_data, run_pos)
    IN  [ok |-> r.ok, cat |-> r.val[1] % 16, count |-> Shr4(r.val)]

\* that run has category 15, passes the declared original length, or asks
\* for more than its category's stream has left
C5_BadRun ==
    /\ dpc = "replay" /\ run_pos < Len(hdr.runs_data)
    /\ C5_NextRun.ok
    /\ \/ C5_NextRun.cat = 15
       \/ ~FitsNat(C5_NextRun.count)
       \/ skel_pos + WToNat(C5_NextRun.count) > WToNat(hdr.orig_len)
       \/ cursors[C5_NextRun.cat] + WToNat(C5_NextRun.count) > Len(dstreams[C5_NextRun.cat])

\* the runs are used up and some stream is not
C5_Leftover ==
    /\ dpc = "replay" /\ run_pos >= Len(hdr.runs_data)
    /\ \E c \in Cats : cursors[c] # Len(dstreams[c])

\* C5: while the control stream is replayed, a run of category 15, a run
\* that passes the declared original length, a run longer than what is left
\* of its stream, and at the end of the runs a stream with bytes left, each
\* end decoding with an error; after an error no image is returned.
C5_ReplayRejects ==
    [][/\ (C5_BadRun \/ C5_Leftover) => dpc' = "err"
       /\ dpc = "err" => dpc' = "err"]_vars

\* C5 witness: decoding ended on a run that asked for more than its stream held
C5_Rejected == dpc = "err" /\ why = "stream underflow" /\ run_pos > 0

\* the positions of the image labelled cat
C6_Positions(m, cat) == {k \in 1..Len(comp[m].skel) : comp[m].labels[k] = cat}

\* the i-th of them in image order
C6_Nth(m, cat, i) ==
    CHOOSE k \in C6_Positions(m, cat) :
        Cardinality({j \in C6_Positions(m, cat) : j < k}) = i - 1

\* C6: the 15 streams of the router have lengths that sum to orig_len, each
\* is the image-order subsequence of the bytes with its label, byte-swap and
\* transpose keep every length, and the streams decompress recovers from the
\* container sum to orig_len too.
C6_StreamsPartitionImage ==
    /\ \A m \in Modes :
        comp[m].pc \in {"code", "done"} =>
            /\ SumSeq([i \in 1..CAT_COUNT |-> Len(comp[m].streams[i - 1])]) = Len(file)
            /\ \A c \in Cats :
                /\ Len(comp[m].streams[c]) = Cardinality(C6_Positions(m, c))
                /\ \A i \in 1..Len(comp[m].streams[c]) :
                       comp[m].streams[c][i] = comp[m].skel[C6_Nth(m, c, i)]
                /\ comp[m].pc = "done" => Len(comp[m].fstreams[c]) = Len(comp[m].streams[c])
    /\ (cmd = "compare" /\ dpc \in {"replay", "inv_et", "inv_jt", "inv_eh", "inv_pb", "done"}) =>
            /\ SumSeq([i \in 1..CAT_COUNT |-> Len(dstreams[i - 1])]) = Len(file)
            /\ WToNat(hdr.orig_len) = Len(file)

\* C6 witness: an image split over several streams, one of them transposed,
\* came back out of the container
C6_SplitAndRecovered ==
    /\ cmd = "compare" /\ dpc = "replay"
    /\ Cardinality({c \in Cats : dstreams[c] # <<>>}) >= 3
    /\ \E m \in Modes : \E c \in NumericCats :
           comp[m].pc = "done" /\ comp[m].fstreams[c] # comp[m].streams[c]

\* the control stream read back as varints: [ok, runs]
RECURSIVE C7_Decode(_, _)
C7_Decode(runs, pos) ==
    IF pos >= Len(runs) THEN [ok |-> TRUE, runs |-> <<>>]
    ELSE LET r == read_varint(runs, pos)
         IN  IF ~r.ok \/ ~FitsNat(Shr4(r.val)) THEN [ok |-> FALSE, runs |-> <<>>]
             ELSE LET rest == C7_Decode(runs, r.pos)
                  IN  [ok |-> rest.ok,
                       runs |-> <<[cat |-> r.val[1] % 16, count |-> WToNat(Shr4(r.val))]>>
                                \o rest.runs]

RECURSIVE C7_Expand(_)
C7_Expand(rs) ==
    IF rs = <<>> THEN <<>>
    ELSE [i \in 1..Head(rs).count |-> Head(rs).cat] \o C7_Expand(Tail(rs))

\* C7: the control stream compress writes decodes to runs with categories in
\* [0,15), counts of at least 1 that total orig_len, adjacent runs of
\* different categories, and an expansion equal to the label vector; the
\* control stream of the empty input is empty.
C7_RunsEncodeLabels ==
    \A m \in Modes :
        comp[m].pc \in {"code", "done"} =>
            LET d == C7_Decode(comp[m].runs, 0)
            IN  /\ d.ok
                /\ \A i \in 1..Len(d.runs) : d.runs[i].cat \in 0..14 /\ d.runs[i].count >= 1
                /\ SumSeq([i \in 1..Len(d.runs) |-> d.runs[i].count]) = Len(file)
                /\ \A i \in 1..(Len(d.runs) - 1) : d.runs[i].cat # d.runs[i + 1].cat
                /\ C7_Expand(d.runs) = comp[m].labels
                /\ (file = <<>> => comp[m].runs = <<>>)

\* C7 witness: a control stream of at least three runs, one of them longer
\* than one byte
C7_SeveralRuns ==
    \E m \in Modes :
        /\ comp[m].pc = "done"
        /\ Len(C7_Decode(comp[m].runs, 0).runs) >= 3
        /\ \E i \in 1..Len(C7_Decode(comp[m].runs, 0).runs) :
               C7_Decode(comp[m].runs, 0).runs[i].count >= 2

\* the original statement of C8: every numeric stream is made of whole
\* records when byte-swap and transpose are applied to it
C8_WholeRecords ==
    \A m \in Modes :
        comp[m].pc \in {"code", "done"} =>
            \A c \in NumericCats : Len(comp[m].streams[c]) % Stride(c) = 0

\* C8: a numeric stream need not be a multiple of its stride.  Byte-swap and
\* transpose act on its whole records only: they keep its length, pass the
\* bytes of a trailing partial record through unchanged, and the inverse
\* transpose and byte-swap of decompress restore the stream.
C8_PartialRecordPassesThrough ==
    \A c \in NumericCats :
        /\ \A m \in Modes :
            comp[m].pc = "done" =>
                LET s == comp[m].streams[c]
                    f == comp[m].fstreams[c]
                    whole == (Len(s) \div Stride(c)) * Stride(c)
                IN  /\ Len(f) = Len(s)
                    /\ \A i \in (whole + 1)..Len(s) : f[i] = s[i]
                    /\ bswap_cat(unshuffle_bytes(f, Stride(c)), c) = s
        /\ (cmd = "compare" /\ dpc \in {"replay", "inv_et", "inv_jt", "inv_eh", "inv_pb", "done"}) =>
                dstreams[c] = comp[IF hdr.use_be THEN "be" ELSE "le"].streams[c]

\* C8 witness: a numeric stream of more than one record with a partial
\* record at its end went through the container and came back
C8_PartialRecordSeen ==
    /\ cmd = "compare" /\ dpc = "replay"
    /\ \E c \in NumericCats :
           /\ Len(dstreams[c]) > Stride(c)
           /\ Len(dstreams[c]) % Stride(c) # 0
           /\ \E i \in 1..Len(dstreams[c]) : dstreams[c][i] # dstreams[c][Len(dstreams[c])]

\* C9: for every entry of a handled .eh_frame_hdr table the compress side
\* stores base_va + field - image_base unless that value does not fit 32
\* bits, in which case it leaves the entry alone, and the decompress side's
\* patch of the compress side's result gives the original 4 bytes back.
C9_EhEntriesRoundTrip ==
    \A m \in Modes :
        comp[m].pc = "jt" =>
            LET pre == process_binary(obj, file, TRUE, UseBe(m))
                post == comp[m].skel
                back == process_eh_frame_hdr(obj, post, FALSE, UseBe(m))
                ps == EhPatches(obj.secs, pre)
            IN  \A i \in 1..Len(ps) :
                    LET field == Slice(pre, ps[i].fo, 4)
                        abs == SubW(AddW(ps[i].field_va, Sext64(field)), ImageBase(obj))
                        fits == SubSeq(abs, 5, 8) = Zeros(4)
                        stored == Slice(post, ps[i].fo, 4)
                    IN  /\ fits => stored = (IF UseBe(m) THEN Rev(Trunc32(abs)) ELSE Trunc32(abs))
                        /\ ~fits => stored = field
                        /\ Slice(back, ps[i].fo, 4) = field

\* every section of the object is code
C10_OnlyText == obj.parse /\ IsX64LE(obj) /\ \A i \in 1..Len(obj.secs) : obj.secs[i].kind = "Text"

\* C10: for every patched instruction field with value x, next-IP N and
\* image base B, compress stores (x + N - B) mod 2^32 in the mode's byte
\* order and decompress writes (stored + B - N) mod 2^32 back, which is x;
\* both sides find the same patches, the rewritten fields moving no
\* instruction boundary.
C10_FieldsNormalised ==
    /\ \A m \in Modes :
        (comp[m].pc = "eh" /\ obj.parse /\ IsX64LE(obj)) =>
            LET ps == TextPatches(obj.secs, file)
                post == comp[m].skel
                B == Trunc32(ImageBase(obj))
            IN  /\ TextPatches(obj.secs, post) = ps
                /\ \A i \in 1..Len(ps) :
                       LET x == Slice(file, ps[i].fo, 4)
                           stored == Slice(post, ps[i].fo, 4)
                           norm == IF UseBe(m) THEN Rev(stored) ELSE stored
                       IN  /\ norm = SubW(AddW(x, ps[i].next_ip), B)
                           /\ SubW(AddW(norm, B), ps[i].next_ip) = x
                /\ process_binary(obj, post, FALSE, UseBe(m)) = file
    /\ (cmd = "compare" /\ C10_OnlyText /\ dpc = "done") => dskel = file

\* C10 witness: in byte-swapped mode a field whose x + N wraps in 32 bits
\* was stored, and decompress returned the image
C10_WrappedFieldRestored ==
    /\ cmd = "compare" /\ C10_OnlyText /\ dpc = "done" /\ hdr.use_be
    /\ comp["be"].skel # file
    /\ \E i \in 1..Len(TextPatches(obj.secs, file)) :
           AddOverflows(Slice(file, TextPatches(obj.secs, file)[i].fo, 4),
                        TextPatches(obj.secs, file)[i].next_ip)


\* the record size and the delta-coded fields (offset, width) of a typed
\* table, by the name of its section; record size 0: not a typed table
C11_Layout(name) ==
    IF StartsWith(name, NAME_RELA) THEN [rec |-> 24, fields |-> {<<0, 8>>, <<12, 4>>, <<16, 8>>}]
    ELSE IF StartsWith(name, NAME_RELR) THEN [rec |-> 8, fields |-> {}]
    ELSE IF StartsWith(name, NAME_REL) THEN [rec |-> 16, fields |-> {<<0, 8>>, <<12, 4>>}]
    ELSE IF name = NAME_DYNSYM \/ name = NAME_SYMTAB
         THEN [rec |-> 24, fields |-> {<<0, 4>>, <<8, 8>>, <<16, 8>>}]
    ELSE IF name = NAME_DYNAMIC THEN [rec |-> 16, fields |-> {<<0, 8>>, <<8, 8>>}]
    ELSE [rec |-> 0, fields |-> {}]

\* entry i of a RELR table as it is stored: a bitmap entry as it is, an
\* address entry as the wrapping difference from the address entry before it
C11_RelrStored(pre, i) ==
    LET val == Slice(pre, 8 * i, 8)
        before == {j \in 0..(i - 1) : Slice(pre, 8 * j, 8)[1] % 2 = 0}
        last == CHOOSE j \in before : \A h \in before : h <= j
    IN  IF val[1] % 2 = 1 \/ i = 0 THEN val
        ELSE SubW(val, IF before = {} THEN Zeros(8) ELSE Slice(pre, 8 * last, 8))

\* what compress stores for the table `pre` of the section `name`
C11_Stored(name, pre) ==
    LET lay == C11_Layout(name)
    IN  IF lay.rec = 0 \/ Len(pre) % lay.rec # 0 THEN pre
        ELSE [k \in 1..Len(pre) |->
                LET i == (k - 1) \div lay.rec
                    o == (k - 1) % lay.rec
                IN  IF StartsWith(name, NAME_RELR) THEN C11_RelrStored(pre, i)[o + 1]
                    ELSE IF \E f \in lay.fields : o >= f[1] /\ o < f[1] + f[2]
                    THEN LET f == CHOOSE g \in lay.fields : o >= g[1] /\ o < g[1] + g[2]
                             cur == Slice(pre, i * lay.rec + f[1], f[2])
                             d == IF i = 0 THEN cur
                                  ELSE SubW(cur, Slice(pre, (i - 1) * lay.rec + f[1], f[2]))
                             v == IF StartsWith(name, NAME_RELA) /\ f[1] = 16 THEN ZigZag(d) ELSE d
                         IN  v[o - f[1] + 1]
                    ELSE pre[k]]

\* C11: each typed-table transform stores every delta-coded field as the
\* wrapping difference from the previous record (a RELR address entry: from
\* the previous address entry), record 0 against zero, the RELA addend
\* zigzag-coded; it leaves a buffer whose length is not a multiple of the
\* record size alone; and the inverse of the forward result is the buffer.
C11_TablesDeltaCoded ==
    [][\A m \in Modes :
          (comp[m].pc = "et" /\ comp'[m].pc = "split" /\ obj.parse /\ IsX64LE(obj)) =>
              /\ \A s \in 1..Len(obj.secs) :
                    Labelled(obj.secs[s], Len(file)) =>
                        LET sec == obj.secs[s]
                            pre == Slice(comp[m].skel, sec.fo, sec.fsize)
                            post == Slice(comp'[m].skel, sec.fo, sec.fsize)
                        IN  /\ post = C11_Stored(sec.name, pre)
                            /\ TableTransform(sec.name, post, FALSE) = pre
              /\ process_elf_tables(obj, comp'[m].skel, FALSE) = comp[m].skel]_vars

\* C11 witness: a RELR table with address and bitmap entries was stored, an
\* address entry changed, and decompress gave the image back
C11_MixedRelrRestored ==
    /\ cmd = "compare" /\ dpc = "done" /\ dskel = file
    /\ obj.parse /\ IsX64LE(obj) /\ Len(obj.secs) = 1
    /\ StartsWith(obj.secs[1].name, NAME_RELR) /\ obj.secs[1].fsize % 8 = 0
    /\ \E i, j \in 0..((obj.secs[1].fsize \div 8) - 1) :
           /\ file[obj.secs[1].fo + 8 * i + 1] % 2 = 0
           /\ file[obj.secs[1].fo + 8 * j + 1] % 2 = 1
    /\ comp["le"].skel # file


\* the sections the jump-table scan reads
C12_Scanned(skel) ==
    {s \in 1..Len(obj.secs) : /\ obj.secs[s].name \in {NAME_RODATA, NAME_DATA_REL_RO}
                              /\ DataOk(obj.secs[s], skel)}

\* entry e of section s points into [text_va, text_va + text_size)
C12_Good(skel, s, e) ==
    LET sec == obj.secs[s]
        target == AddW(AddW(sec.addr, NatToW(4 * e, 8)), Sext64(Slice(skel, sec.fo + 4 * e, 4)))
        rel == SubW(target, FindText(obj.secs).va)
    IN  FitsNat(rel) /\ WToNat(rel) < FindText(obj.secs).size

\* the maximal runs of at least 4 good entries, each inside one section
C12_Runs(skel) ==
    IF FindText(obj.secs).size = 0 THEN {}
    ELSE UNION {LET n == obj.secs[s].fsize \div 4
                IN  {[fo |-> obj.secs[s].fo + 4 * a, count |-> b - a + 1] :
                        <<a, b>> \in {p \in (0..(n - 1)) \X (0..(n - 1)) :
                            /\ p[2] - p[1] + 1 >= 4
                            /\ \A e \in p[1]..p[2] : C12_Good(skel, s, e)
                            /\ (p[1] = 0 \/ ~C12_Good(skel, s, p[1] - 1))
                            /\ (p[2] = n - 1 \/ ~C12_Good(skel, s, p[2] + 1))}} :
                s \in C12_Scanned(skel)}

\* C12: on compress the recorded jump tables are exactly the maximal runs of
\* at least 4 consecutive 4-byte entries of one .rodata or .data.rel.ro
\* section whose targets lie in [text_va, text_va + text_size); a target
\* equal to text_va + text_size ends a run; without a non-empty .text no
\* table is recorded; and no byte outside the recorded tables is rewritten.
C12_TablesAreMaximalRuns ==
    [][\A m \in Modes :
          (comp[m].pc = "jt" /\ comp'[m].pc = "et" /\ obj.parse /\ IsX64LE(obj)) =>
              LET skel == comp[m].skel
                  tabs == comp'[m].tables
                  runs == C12_Runs(skel)
              IN  /\ {tabs[t] : t \in 1..Len(tabs)} = runs
                  /\ Len(tabs) = Cardinality(runs)
                  /\ \A k \in 1..Len(skel) :
                         (\A r \in runs : k - 1 < r.fo \/ k - 1 >= r.fo + 4 * r.count)
                             => comp'[m].skel[k] = skel[k]
                  /\ (FindText(obj.secs).size = 0 =>
                         tabs = <<>> /\ comp'[m].skel = skel /\ comp'[m].meta = <<>>)]_vars

\* C12 witness: a run of four entries was recorded that ends at an entry
\* whose target is text_va + text_size, with another good entry after it
C12_RunEndsAtTextEnd ==
    \E m \in Modes :
        /\ comp[m].pc = "et" /\ obj.parse /\ IsX64LE(obj)
        /\ Len(comp[m].tables) = 1 /\ comp[m].tables[1].count = 4
        /\ Len(file) >= comp[m].tables[1].fo + 24
        /\ LET fo == comp[m].tables[1].fo
               sec == obj.secs[2]
               target(e) == AddW(AddW(sec.addr, NatToW(4 * e, 8)), Sext64(Slice(file, fo + 4 * e, 4)))
               text == FindText(obj.secs)
           IN  /\ sec.fo = fo
               /\ target(4) = AddW(text.va, NatToW(text.size, 8))
               /\ InText(target(5), text)


\* ---- C13 ---------------------------------------------------------------
\* the router's rules in their fixed order, each a test of the section and
\* the category it gives
C13_Rules(sec) ==
    LET n == sec.name
        has(w) == \E k \in 1..Len(n) : k + Len(w) - 1 <= Len(n) /\ [i \in 1..Len(w) |-> n[k + i - 1]] = w
        begins(w) == Len(w) <= Len(n) /\ \A i \in 1..Len(w) : n[i] = w[i]
    IN  << <<sec.kind = "Text", CAT_CODE>>,
           <<has(<<"s", "t", "r">>), CAT_STR>>,
           <<has(<<"e", "h", "_", "f", "r", "a", "m", "e">>)
             \/ has(<<"g", "c", "c", "_", "e", "x", "c", "e", "p", "t">>), CAT_EH>>,
           <<begins(<<".", "r", "e", "l", "r">>), CAT_RELR8>>,
           <<begins(<<".", "r", "e", "l", "a">>), CAT_RELA24>>,
           <<n \in {<<".", "s", "y", "m", "t", "a", "b">>, <<".", "d", "y", "n", "s", "y", "m">>}, CAT_SYM24>>,
           <<begins(<<".", "r", "e", "l">>), CAT_REL16>>,
           <<n = <<".", "d", "y", "n", "a", "m", "i", "c">>, CAT_DYNAMIC16>>,
           <<has(<<"c", "s", "t", "1", "6">>), CAT_S16>>,
           <<n = <<".", "g", "n", "u", ".", "v", "e", "r", "s", "i", "o", "n">>, CAT_S2>>,
           <<(\E p \in ptr_prefixes : begins(p))
             \/ has(<<"a", "r", "r", "a", "y">>) \/ has(<<"c", "s", "t", "8">>), CAT_S8>>,
           <<has(<<"h", "a", "s", "h">>) \/ has(<<"c", "s", "t", "4">>), CAT_S4>> >>

\* the category of the first rule that matches, OTHER when none does
C13_Category(sec) ==
    LET r == C13_Rules(sec)
        hits == {i \in 1..Len(r) : r[i][1]}
    IN  IF hits = {} THEN CAT_OTHER
        ELSE r[CHOOSE i \in hits : \A j \in hits : i <= j][2]

\* byte k (from 0) lies in a jump-table record
C13_InTable(tables, k) ==
    \E t \in 1..Len(tables) : tables[t].fo <= k /\ k < tables[t].fo + 4 * tables[t].count

\* C13: the label split_streams gives each image byte is JT4 inside
\* [fo, fo + 4*count) of any jump-table record whatever the section says;
\* elsewhere it is the category the first matching rule gives the section
\* covering the byte, and OTHER for a byte in no section.  Every byte the
\* jump-table stage rewrote lies in a record, so it is labelled JT4.
C13_LabelsFollowRules ==
    [][\A m \in Modes :
          /\ (comp[m].pc = "split" /\ comp'[m].pc = "code") =>
                 LET tables == comp[m].tables
                     labels == comp'[m].labels
                     covering(k) == IF obj.parse
                                    THEN {s \in 1..Len(obj.secs) :
                                            /\ obj.secs[s].range
                                            /\ obj.secs[s].fo <= k
                                            /\ k < obj.secs[s].fo + obj.secs[s].fsize}
                                    ELSE {}
                 IN  /\ Len(labels) = Len(file)
                     /\ \A k \in 0..(Len(file) - 1) :
                            IF C13_InTable(tables, k) THEN labels[k + 1] = CAT_JT4
                            ELSE IF covering(k) = {} THEN labels[k + 1] = CAT_OTHER
                            ELSE \E s \in covering(k) : labels[k + 1] = C13_Category(obj.secs[s])
          /\ (comp[m].pc = "jt" /\ comp'[m].pc = "et") =>
                 \A k \in 0..(Len(file) - 1) :
                     comp'[m].skel[k + 1] # comp[m].skel[k + 1] => C13_InTable(comp'[m].tables, k)
      ]_vars

\* C13 witness: a jump table recorded inside .data.rel.ro, whose bytes are
\* labelled JT4 while the rest of the section is labelled S8
C13_TableInsidePointerSection ==
    \E m \in Modes :
        /\ comp[m].pc \in {"code", "done"}
        /\ Len(comp[m].tables) = 1
        /\ \E s \in 1..Len(obj.secs) :
               /\ obj.secs[s].name = NAME_DATA_REL_RO
               /\ obj.secs[s].fo = comp[m].tables[1].fo
               /\ comp[m].labels[obj.secs[s].fo + 1] = CAT_JT4
               /\ comp[m].labels[obj.secs[s].fo + obj.secs[s].fsize] = CAT_S8
        /\ comp[m].skel # file

\* ---- C14 ---------------------------------------------------------------
\* 'FESC', orig_len = 0 in eight bytes, endian flag 0, seventeen zero varints
C14_EmptyContainer ==
    <<70, 69, 83, 67, 0, 0, 0, 0, 0, 0, 0, 0, 0,
      0, 0, 0, 0, 0, 0, 0, 0, 0, 0, 0, 0, 0, 0, 0, 0, 0>>

\* C14: compress of the empty input returns exactly the 30-byte container
\* 'FESC', eight zero bytes, flag 0 and seventeen zero varints, and
\* decompress of it returns the empty image; for the one-byte input 00 the
\* control stream is the single byte 0x10 and only the OTHER stream (and its
\* block) is non-empty.
C14_SmallestInputs ==
    /\ (Compressed /\ file = <<>>) =>
           /\ packed = C14_EmptyContainer
           /\ Len(packed) = 30
           /\ (Ended => (Returned /\ dskel = <<>>))
    /\ (cmd = "compare" /\ file = <<0>>) =>
           \A m \in Modes :
               /\ comp[m].pc \in {"code", "done"} =>
                      /\ comp[m].runs = <<16>>
                      /\ \A c \in Cats : (comp[m].streams[c] # <<>>) <=> (c = CAT_OTHER)
                      /\ comp[m].streams[CAT_OTHER] = <<0>>
               /\ comp[m].pc = "done" =>
                      \A c \in Cats : (comp[m].cs[c] # <<>>) <=> (c = CAT_OTHER)

\* C14 witness: the empty input was compressed to 30 bytes and decompress
\* returned the empty image
C14_EmptyRoundTrip ==
    /\ cmd = "compare" /\ file = <<>>
    /\ Returned /\ Len(packed) = 30 /\ dskel = <<>>

\* ---- C15 ---------------------------------------------------------------
\* an unknown subcommand, too few arguments for the subcommand, or extra ones
C15_UsageError ==
    \/ cmd \notin {"compare", "compress", "decompress"}
    \/ cmd = "compare" /\ argc # 3
    \/ cmd \in {"compress", "decompress"} /\ argc # 4

\* C15: an invocation with an unknown subcommand, with too few arguments for
\* its subcommand (compare takes one path, compress and decompress an input
\* and an output path) or with extra arguments ends with exit code 2 before
\* any file is read, compressed or written.
C15_UsageErrorsExitTwo ==
    C15_UsageError =>
        /\ dpc \in {"main", "exit2"}
        /\ io = {}
        /\ \A m \in Modes : comp[m].pc = "idle"

\* ---- C16 ---------------------------------------------------------------
\* the varint that starts at pos (from 0): whether a terminating byte is
\* there, how many bytes it takes, whether the bits of its 7-bit groups fit
\* in 64 bits, and the number they encode (-1 when it is 2^28 or more)
C16_Groups(buf, pos) ==
    LET ends == {k \in 0..(Len(buf) - pos - 1) : buf[pos + k + 1] < 128}
        n == CHOOSE k \in ends : \A j \in ends : k <= j
        bit(j) == ((buf[pos + (j \div 7) + 1] % 128) \div (2 ^ (j % 7))) % 2
        top == 7 * (n + 1) - 1
    IN  IF ends = {} THEN [ended |-> FALSE, len |-> 0, fits |-> FALSE, value |-> -1]
        ELSE [ended |-> TRUE,
              len |-> n + 1,
              fits |-> \A j \in 64..top : bit(j) = 0,
              value |-> IF \E j \in 28..top : bit(j) = 1 THEN -1
                        ELSE SumSeq([i \in 1..(IF top < 27 THEN top + 1 ELSE 28) |-> bit(i - 1) * (2 ^ (i - 1))])]

\* C16: read_varint returns an error for every sequence whose 7-bit groups
\* encode a value that does not fit in 64 bits (a tenth byte of payload above
\* 1 included) and for every sequence that ends before a terminating byte;
\* a value it returns is the sum of payload_i * 2^(7*i) with no bit dropped;
\* and a length written by write_varint is read back as it was.  Observed
\* where decompress reads the length of the control stream and each run.
C16_VarintExact ==
    [][/\ (dpc = "read" /\ dpc' # "read" /\ Len(data) >= 13 /\ SubSeq(data, 1, 4) = MAGIC) =>
              LET g == C16_Groups(data, 13)
              IN  /\ (~g.ended \/ ~g.fits) => dpc' = "err"
                  /\ dpc' = "decode" => Len(hdr'.runs_data) = g.value
                  /\ cmd = "compare" =>
                         /\ dpc' = "decode"
                         /\ \E m \in Modes : hdr'.runs_data = comp[m].runs
       /\ (dpc = "replay" /\ run_pos < Len(hdr.runs_data) /\ <<dpc, run_pos>>' # <<dpc, run_pos>>) =>
              LET g == C16_Groups(hdr.runs_data, run_pos)
              IN  /\ (~g.ended \/ ~g.fits) => dpc' = "err"
                  /\ dpc' = "replay" =>
                         /\ run_pos' = run_pos + g.len
                         /\ skel_pos' - skel_pos = g.value \div 16
      ]_vars

\* ---- C17 ---------------------------------------------------------------
\* the records a side table holds: each file offset is the previous one (0
\* at first) plus the delta read, a number that is not negative
RECURSIVE C17_Records(_, _, _, _)
C17_Records(meta, pos, left, prev) ==
    IF left <= 0 THEN <<>>
    ELSE LET d == C16_Groups(meta, pos)
             c == C16_Groups(meta, pos + d.len)
         IN  <<[fo |-> prev + d.value, count |-> c.value]>>
             \o C17_Records(meta, pos + d.len + c.len, left - 1, prev + d.value)

\* C17: the side table compress writes (the count, then per table the delta
\* of its file offset from the previous table, from 0, and its entry count)
\* decodes to the records compress found, in whatever order the sections are
\* enumerated, a later section at a smaller file offset included; no delta
\* underflows; and decompress rewrites exactly the entries compress rewrote.
C17_SideTableRoundTrips ==
    [][/\ \A m \in Modes :
              (comp[m].pc = "jt" /\ comp'[m].pc # "jt") =>
                  /\ comp'[m].pc = "et"
                  /\ IF comp'[m].meta = <<>> THEN comp'[m].tables = <<>>
                     ELSE LET n == C16_Groups(comp'[m].meta, 0)
                          IN  /\ n.value = Len(comp'[m].tables)
                              /\ C17_Records(comp'[m].meta, n.len, n.value, 0) = comp'[m].tables
       /\ (cmd = "compare" /\ dpc = "inv_jt" /\ dpc' # "inv_jt") =>
              LET m == IF hdr.use_be THEN "be" ELSE "le"
                  tables == comp[m].tables
                  entries == {t.fo + 4 * i : <<t, i>> \in
                                 UNION {{<<tables[k], j>> : j \in 0..(tables[k].count - 1)} :
                                           k \in 1..Len(tables)}}
              IN  /\ dpc' = "inv_eh"
                  /\ \A k \in 1..Len(dskel) :
                         dskel'[k] # dskel[k] => \E p \in entries : p < k /\ k <= p + 4
                  /\ \A p \in entries :
                         LET stored == IF hdr.use_be THEN Rev(Slice(dskel, p, 4)) ELSE Slice(dskel, p, 4)
                             entry_va == file_to_va(obj.secs, p)
                         IN  Trunc32(SubW(AddW(entry_va, Sext64(Slice(dskel', p, 4))), ImageBase(obj)))
                                 = stored
      ]_vars

\* ---- C19 ---------------------------------------------------------------
\* C19: in the reassembly loop of decompress the output position is the sum
\* of the 15 stream cursors and never exceeds orig_len; after the loop, and
\* so whenever decompress returns an image, the output position is orig_len:
\* the counts of the runs replayed total orig_len and no byte of the image
\* is left zero because the control stream ended early.
C19_RunsFillImage ==
    /\ dpc = "replay" =>
           /\ skel_pos = SumSeq([i \in 1..CAT_COUNT |-> cursors[i - 1]])
           /\ skel_pos <= WToNat(hdr.orig_len)
           /\ Len(dskel) = WToNat(hdr.orig_len)
    /\ dpc \in {"inv_et", "inv_jt", "inv_eh", "inv_pb", "done"} =>
           /\ skel_pos = SumSeq([i \in 1..CAT_COUNT |-> cursors[i - 1]])
           /\ skel_pos = WToNat(hdr.orig_len)

\* ---- C18 ---------------------------------------------------------------
\* the container one call of compress_with_mode builds when nothing runs
\* beside it and its jobs run in index order
C18_Sequential(use_be) ==
    LET s1 == process_binary(obj, file, TRUE, use_be)
        s2 == process_eh_frame_hdr(obj, s1, TRUE, use_be)
        jt == process_jump_tables(obj, s2, TRUE, use_be, <<>>, checks)
        s4 == process_elf_tables(obj, jt.out, TRUE)
        sp == split_streams(obj, s4, jt.tables)
    IN  Container(Len(file), use_be, sp.runs,
                  [c \in Cats |-> CompressJob(c, FilterStream(sp.streams[c], c))], jt.meta)

\* the `left` length-prefixed blocks of a container from pos on
RECURSIVE C18_Blocks(_, _, _)
C18_Blocks(buf, pos, left) ==
    IF left = 0 THEN <<>>
    ELSE LET g == C16_Groups(buf, pos)
         IN  <<SubSeq(buf, pos + g.len + 1, pos + g.len + g.value)>>
             \o C18_Blocks(buf, pos + g.len + g.value, left - 1)

\* C18: whatever the interleaving of the two probe pipelines and of the jobs
\* of the parallel maps, each probe task builds the container it builds when
\* run alone, block k of it holds the stream of category k, and compress
\* returns the choice between those two containers; decompress hands on the
\* streams of the 15 blocks each in its own slot, and when any one decode job
\* fails it returns an error and no image.
C18_AnyOrderSameResult ==
    /\ \A m \in Modes :
           comp[m].pc = "done" =>
               /\ comp[m].box = C18_Sequential(UseBe(m))
               /\ LET b == C18_Blocks(comp[m].box, 13, CAT_COUNT + 2)
                  IN  /\ b[1] = comp[m].runs
                      /\ \A c \in Cats :
                             decompress_xz(b[c + 2]) =
                                 [ok |-> TRUE, out |-> FilterStream(comp[m].streams[c], c)]
    /\ (cmd \in {"compare", "compress"} /\ dpc \notin {"main", "exit2", "argpanic", "idle", "panic"}) =>
           LET c_le == C18_Sequential(FALSE)
               c_be == C18_Sequential(TRUE)
           IN  packed = IF Len(c_be) < Len(c_le) THEN c_be ELSE c_le
    /\ dpc \in {"replay", "inv_et", "inv_jt", "inv_eh", "inv_pb", "done"} =>
           /\ \A c \in Cats : decompress_xz(hdr.cs[c]).ok
           /\ dstreams = [c \in Cats |-> UnfilterStream(decompress_xz(hdr.cs[c]).out, c)]
    /\ (Ended /\ \E c \in Cats : ~decompress_xz(hdr.cs[c]).ok) =>
           /\ dpc = "err"
           /\ dskel = <<>>

\* C18 witness: one probe task has built its container while the other is
\* inside its parallel map, where the jobs of the second half of the
\* categories have all run and none of the first half has
C18_JobsOutOfOrder ==
    \E m, n \in Modes :
        /\ comp[m].pc = "done" /\ comp[m].box = C18_Sequential(UseBe(m))
        /\ comp[n].pc = "jobs"
        /\ jobs[n][1] = 0 /\ ChunkDone(jobs[n], 2)
        /\ comp[n].cs[CAT_JT4] # <<>> /\ comp[n].fstreams[CAT_OTHER] # <<>>
=============================================================================
